---------------------------- MODULE Spec2Model ----------------------------
(***************************************************************************)
(* A model of the automation core of the repository:                       *)
(*   - the protocol layer (Protocol base class, MQTT / HTTP / WebSocket     *)
(*     transports, observers, the MQTT listen task),                        *)
(*   - the DecisionEngine (decision cache, remote delegate, local rules),   *)
(*   - the ContextManager (layered cache, history, update_context).         *)
(* Each subsystem has its own specification (SpecProto, SpecDecision,       *)
(* SpecLocal for local rule evaluation as a function, SpecContext); the     *)
(* variables of the other subsystems stay at their initial values.          *)
(***************************************************************************)
EXTENDS Integers, Sequences, FiniteSets, TLC

(***************************************************************************)
(* Bounds of the model.                                                     *)
(***************************************************************************)
\* notifications (state changes and inbound messages) raised in one run
MaxNotifs == 5
\* client objects created in one run, i.e. connect() calls
MaxClients == 2
\* add_observer / remove_observer calls in one run
MaxRegs == 2
\* make_decision calls in one run
MaxCalls == 2
\* get_context / update_context / add_action_to_history calls in one run
MaxCtxOps == 3
\* hours that pass in one run
MaxTicks == 1
\* publish/subscribe/unsubscribe/send_command calls in a run
MaxCmds == 1
\* words in a text given to the parser
MaxWords == 3
\* add_action_to_history calls a manager in use has served before the run
WarmAdds == 7
\* the longest recent_actions list an update carries
UpdateLen == 8

(***************************************************************************)
(* Protocol layer: state.                                                   *)
(***************************************************************************)
VARIABLES
    kind,        \* the transport: "mqtt", "http" or "websocket"
    state,       \* Protocol.state
    observers,   \* Protocol.observers, in registration order
    nregs,       \* add_observer / remove_observer calls so far
    client,      \* Protocol._client: 0 is None, else the id of a client object
    nclients,    \* client objects created so far
    connected,   \* ids of the client objects whose transport is open
    listenTask,  \* MQTTProtocol._listen_task: 0 is None, else a task id
    tasks,       \* listen tasks ever created: [st, cl, n]
    pc,          \* where the caller's connect()/disconnect() is suspended
    cn,          \* the notification whose gather the caller awaits
    nops,        \* connect()/disconnect() calls started
    lastOp,      \* the call in progress, or the last one that returned
    ret,         \* what the last returned call returned
    doneAt,      \* notifications raised when the last call returned
    raised,      \* every notification raised, in the order it was raised
    ready,       \* observer callbacks scheduled and not yet run (FIFO)
    recv         \* per observer: the notifications its callbacks received

protoVars == <<kind, state, observers, nregs, client, nclients, connected, listenTask,
               tasks, pc, cn, nops, lastOp, ret, doneAt, raised, ready, recv>>

(***************************************************************************)
(* DecisionEngine: state.                                                   *)
(***************************************************************************)
VARIABLES
    rules,       \* DecisionEngine.rules
    dcache,      \* DecisionEngine._decision_cache: cache key -> Decision
    calls,       \* the make_decision calls, in the order they started
    now          \* the clock datetime.now() reads

decVars == <<rules, dcache, calls, now>>

(***************************************************************************)
(* Local rule evaluation applied to one input: state.                       *)
(***************************************************************************)
VARIABLES
    probe,       \* the input the function is applied to
    probeOut     \* what the function returned

localVars == <<probe, probeOut>>

(***************************************************************************)
(* ContextManager: state.                                                   *)
(***************************************************************************)
VARIABLES
    clock,       \* hours since the manager was built (datetime.now())
    heap,        \* the list objects holding recent_actions, by object id
    lcache,      \* ContextManager._local_cache: cache key -> cached data
    contexts,    \* every Context returned, in the order it was returned
    nctx,        \* ContextManager calls made in this run
    lastCtx      \* the last ContextManager call, its arguments and its hour

ctxVars == <<clock, heap, lcache, contexts, nctx, lastCtx>>

(***************************************************************************)
(* Commands sent through a protocol: state.                                 *)
(***************************************************************************)
VARIABLES
    cmd,         \* the last publish/subscribe/unsubscribe/send_command call
    ncmds        \* such calls so far

cmdVars == <<cmd, ncmds>>

(***************************************************************************)
(* ContextManager with both cache layers, in seconds: state.                *)
(***************************************************************************)
VARIABLES
    secs,        \* seconds since the manager was built (datetime.now())
    nwaits,      \* times the clock was advanced
    redisOn,     \* whether ContextManager.redis_client is set
    local,       \* ContextManager._local_cache: cache key -> cached data
    shared,      \* the Redis keys: cache key -> cached data and expiry
    served,      \* the last _get_source_data call and what it returned
    nreads       \* _get_source_data / clear_cache calls so far

layerVars == <<secs, nwaits, redisOn, local, shared, served, nreads>>

(***************************************************************************)
(* SinikBrain processes sharing one Redis: state.                           *)
(***************************************************************************)
VARIABLES
    wall,        \* the wall clock in seconds (datetime.now(), Redis expiry)
    npauses,     \* times the wall clock was advanced
    lock,        \* Redis key sinik:lock:lights_all: 0 is absent, else its expiry
    target,      \* Redis key sinik:dev:lights_all:target: the action stored
    bstep,       \* per brain: where its process_event is suspended
    bcur,        \* per brain: the event key and decision it is processing
    last_action, \* per brain: SinikBrain.last_action, event key -> time
    bevent,      \* the last process_event call: brain, key, skipped
    bret,        \* the last execute_action return: brain, acquired, result
    nevents,     \* process_event calls so far
    puts         \* device commands (PUT groups/0/action) completed

brainVars == <<wall, npauses, lock, target, bstep, bcur, last_action, bevent, bret,
               nevents, puts>>

vars == <<protoVars, decVars, localVars, ctxVars, cmdVars, layerVars, brainVars>>

DISCONNECTED == "disconnected"
CONNECTING == "connecting"
CONNECTED == "connected"
ERROR == "error"
RECONNECTING == "reconnecting"

ProtocolState == {DISCONNECTED, CONNECTING, CONNECTED, ERROR, RECONNECTING}

Kinds == {"mqtt", "http", "websocket"}

\* The observers that may register; the callbacks of "o2" raise.
Observers == {"o1", "o2"}

Raises(o) == o = "o2"

SeqRange(s) == {s[i] : i \in DOMAIN s}

RemoveFirst(s, x) ==
    LET i == CHOOSE k \in DOMAIN s : s[k] = x /\ \A j \in 1..(k - 1) : s[j] # x
    IN  SubSeq(s, 1, i - 1) \o SubSeq(s, i + 1, Len(s))

(***************************************************************************)
(* Protocol._notify_message / Protocol._notify_state_change.                *)
(* tasks = [observer.on_x(...) for observer in self.observers] : one        *)
(* callback per registered observer, in registration order.                 *)
(***************************************************************************)
NotifyTargets(obs) == obs

\* asyncio.gather(*tasks, return_exceptions=True): the await never raises
\* because of an observer's exception.
\* gather without return_exceptions=True: an observer's exception reaches
\* the notifier
GatherRaisesPropagate(obs) == \E i \in DOMAIN obs : Raises(obs[i])

GatherRaises(obs) == FALSE

\* gather schedules the callbacks of notification n behind whatever the event
\* loop already holds.
\* a scheduler that runs the newest callbacks first
ScheduleNewestFirst(q, n, obs) == IF NotifyTargets(obs) = <<>> THEN q ELSE <<n>> \o q

Schedule(q, n, obs) == IF NotifyTargets(obs) = <<>> THEN q ELSE Append(q, n)

\* A notification is pending while its callbacks have not run.
Pending(n) == \E i \in DOMAIN ready : ready[i] = n

GatherDone(n) == n = 0 \/ ~Pending(n)

\* The await of notification n's gather ended with an exception.
GatherFailed(n) == n # 0 /\ GatherRaises(raised[n].to)

\* self.state = state, then the broadcast to the observers registered now.
Notification(k, s, e, by) ==
    [kind |-> k, state |-> s, prev |-> state, error |-> e, to |-> observers,
     by |-> by, op |-> IF by = 0 THEN nops ELSE 0, cancelled |-> FALSE]

\* What the caller's call in progress will still raise.
Need ==
    IF pc \in {"c_notify_connecting", "c_io", "d_await_task", "d_io"} THEN 1 ELSE 0

Room(k) == Len(raised) + Need + k <= MaxNotifs

\* A task made by asyncio.create_task runs its first step before the caller
\* resumes from a suspension that began after the task was made.
AllStarted == \A t \in DOMAIN tasks : tasks[t].st # "created"

\* a connect() that went back to DISCONNECTED on failure
ConnectFailureStateLost == DISCONNECTED

ConnectFailureState == ERROR

DisconnectState == DISCONNECTED

(***************************************************************************)
(* Protocol.add_observer / Protocol.remove_observer.                        *)
(***************************************************************************)
AddObserver(o) ==
    /\ o \notin SeqRange(observers)
    /\ nregs < MaxRegs
    /\ nregs' = nregs + 1
    /\ observers' = Append(observers, o)
    /\ UNCHANGED <<kind, state, client, nclients, connected, listenTask, tasks,
                   pc, cn, nops, lastOp, ret, doneAt, raised, ready, recv>>
    /\ UNCHANGED <<decVars, localVars, ctxVars, cmdVars, layerVars, brainVars>>

RemoveObserver(o) ==
    /\ o \in SeqRange(observers)
    /\ nregs < MaxRegs
    /\ nregs' = nregs + 1
    /\ observers' = RemoveFirst(observers, o)
    /\ UNCHANGED <<kind, state, client, nclients, connected, listenTask, tasks,
                   pc, cn, nops, lastOp, ret, doneAt, raised, ready, recv>>
    /\ UNCHANGED <<decVars, localVars, ctxVars, cmdVars, layerVars, brainVars>>

(***************************************************************************)
(* The event loop runs the callbacks of the oldest pending broadcast: they  *)
(* were scheduled together, so they run one after the other.                *)
(***************************************************************************)
Deliver ==
    /\ ready # <<>>
    /\ recv' = [o \in Observers |->
                  IF o \in SeqRange(NotifyTargets(raised[Head(ready)].to))
                  THEN Append(recv[o], Head(ready))
                  ELSE recv[o]]
    /\ ready' = Tail(ready)
    /\ UNCHANGED <<kind, state, observers, nregs, client, nclients, connected,
                   listenTask, tasks, pc, cn, nops, lastOp, ret, doneAt, raised>>
    /\ UNCHANGED <<decVars, localVars, ctxVars, cmdVars, layerVars, brainVars>>

(***************************************************************************)
(* connect() of MQTTProtocol, HTTPProtocol and WebSocketProtocol.           *)
(***************************************************************************)
\* await self._notify_state_change(ProtocolState.CONNECTING)
ConnectStart ==
    /\ pc = "idle"
    /\ nclients < MaxClients
    /\ Len(raised) + 2 <= MaxNotifs
    /\ nops' = nops + 1
    /\ lastOp' = "connect"
    /\ state' = CONNECTING
    /\ raised' = Append(raised, [Notification("state", CONNECTING, FALSE, 0)
                                   EXCEPT !.op = nops + 1])
    /\ ready' = Schedule(ready, Len(raised) + 1, observers)
    /\ cn' = Len(raised) + 1
    /\ pc' = "c_notify_connecting"
    /\ UNCHANGED <<kind, observers, nregs, client, nclients, connected, listenTask,
                   tasks, ret, doneAt, recv>>
    /\ UNCHANGED <<decVars, localVars, ctxVars, cmdVars, layerVars, brainVars>>

\* self._client = XClient(...), then await self._client.connect()
ConnectMakeClient ==
    /\ pc = "c_notify_connecting"
    /\ GatherDone(cn)
    /\ NotifyTargets(raised[cn].to) # <<>> => AllStarted
    /\ IF GatherFailed(cn)
       THEN /\ pc' = "idle"
            /\ ret' = "raised"
            /\ doneAt' = Len(raised)
            /\ UNCHANGED <<client, nclients>>
       ELSE /\ nclients' = nclients + 1
            /\ client' = nclients + 1
            /\ pc' = "c_io"
            /\ UNCHANGED <<ret, doneAt>>
    /\ UNCHANGED <<kind, state, observers, nregs, connected, listenTask, tasks, cn,
                   nops, lastOp, raised, ready, recv>>
    /\ UNCHANGED <<decVars, localVars, ctxVars, cmdVars, layerVars, brainVars>>

\* the client's connect() returned True
ConnectSucceed ==
    /\ pc = "c_io"
    /\ AllStarted
    /\ connected' = connected \cup {client}
    /\ state' = CONNECTED
    /\ raised' = Append(raised, Notification("state", CONNECTED, FALSE, 0))
    /\ ready' = Schedule(ready, Len(raised) + 1, observers)
    /\ cn' = Len(raised) + 1
    /\ pc' = "c_notify_connected"
    /\ UNCHANGED <<kind, observers, nregs, client, nclients, listenTask, tasks, nops,
                   lastOp, ret, doneAt, recv>>
    /\ UNCHANGED <<decVars, localVars, ctxVars, cmdVars, layerVars, brainVars>>

\* MQTTClient.connect / WebSocketClient.connect caught the transport's
\* exception and returned False: the else branch, which passes no error.
ConnectRefused ==
    /\ pc = "c_io"
    /\ AllStarted
    /\ kind \in {"mqtt", "websocket"}
    /\ state' = ConnectFailureState
    /\ raised' = Append(raised, Notification("state", ConnectFailureState, FALSE, 0))
    /\ ready' = Schedule(ready, Len(raised) + 1, observers)
    /\ cn' = Len(raised) + 1
    /\ pc' = "c_notify_error"
    /\ UNCHANGED <<kind, observers, nregs, client, nclients, connected, listenTask,
                   tasks, nops, lastOp, ret, doneAt, recv>>
    /\ UNCHANGED <<decVars, localVars, ctxVars, cmdVars, layerVars, brainVars>>

\* HTTPClient.connect catches nothing: an exception reaches the except branch
\* of HTTPProtocol.connect, which passes it on.
ConnectRaises ==
    /\ pc = "c_io"
    /\ AllStarted
    /\ kind = "http"
    /\ state' = ConnectFailureState
    /\ raised' = Append(raised, Notification("state", ConnectFailureState, TRUE, 0))
    /\ ready' = Schedule(ready, Len(raised) + 1, observers)
    /\ cn' = Len(raised) + 1
    /\ pc' = "c_notify_error"
    /\ UNCHANGED <<kind, observers, nregs, client, nclients, connected, listenTask,
                   tasks, nops, lastOp, ret, doneAt, recv>>
    /\ UNCHANGED <<decVars, localVars, ctxVars, cmdVars, layerVars, brainVars>>

\* self._start_listening() (MQTT only), then return True
ConnectStartListening ==
    /\ pc = "c_notify_connected"
    /\ GatherDone(cn)
    /\ pc' = "idle"
    /\ doneAt' = Len(raised)
    /\ IF GatherFailed(cn)
       THEN /\ ret' = "raised"
            /\ UNCHANGED <<tasks, listenTask>>
       ELSE /\ ret' = "true"
            /\ IF kind = "mqtt" /\ client # 0
               THEN /\ tasks' = Append(tasks, [st |-> "created", cl |-> 0, n |-> 0])
                    /\ listenTask' = Len(tasks) + 1
               ELSE UNCHANGED <<tasks, listenTask>>
    /\ UNCHANGED <<kind, state, observers, nregs, client, nclients, connected, cn,
                   nops, lastOp, raised, ready, recv>>
    /\ UNCHANGED <<decVars, localVars, ctxVars, cmdVars, layerVars, brainVars>>

\* return False
ConnectReturnFalse ==
    /\ pc = "c_notify_error"
    /\ GatherDone(cn)
    /\ pc' = "idle"
    /\ doneAt' = Len(raised)
    /\ ret' = IF GatherFailed(cn) THEN "raised" ELSE "false"
    /\ UNCHANGED <<kind, state, observers, nregs, client, nclients, connected,
                   listenTask, tasks, cn, nops, lastOp, raised, ready, recv>>
    /\ UNCHANGED <<decVars, localVars, ctxVars, cmdVars, layerVars, brainVars>>

(***************************************************************************)
(* disconnect() of MQTTProtocol, HTTPProtocol and WebSocketProtocol.        *)
(***************************************************************************)
Drop(q, n) == SelectSeq(q, LAMBDA e : e # n)

\* task.cancel(): the task gets CancelledError at its next step and ends; the
\* gather it awaits is cancelled with it, and so are the callbacks of that
\* gather that have not run yet.
CancelTasks(ts, t) ==
    [ts EXCEPT ![t] = [st |-> "done", cl |-> ts[t].cl, n |-> 0]]

CancelReady(q, t) ==
    IF tasks[t].st \in {"notifying", "failing"} THEN Drop(q, tasks[t].n) ELSE q

CancelRaised(r, t) ==
    IF tasks[t].st \in {"notifying", "failing"} /\ Pending(tasks[t].n)
    THEN [r EXCEPT ![tasks[t].n].cancelled = TRUE]
    ELSE r

\* if self._client: await self._client.disconnect(); self._client = None
\* await self._notify_state_change(ProtocolState.DISCONNECTED)
DisconnectClient(q, r) ==
    IF client # 0 /\ client \in connected
    THEN /\ pc' = "d_io"
         /\ ready' = q
         /\ raised' = r
         /\ UNCHANGED <<client, state, cn>>
    ELSE /\ client' = 0
         /\ state' = DisconnectState
         /\ raised' = Append(r, Notification("state", DisconnectState, FALSE, 0))
         /\ ready' = Schedule(q, Len(r) + 1, observers)
         /\ cn' = Len(r) + 1
         /\ pc' = "d_notify"

\* if self._listen_task: self._listen_task.cancel(); await self._listen_task
DisconnectStart ==
    /\ pc = "idle"
    /\ nops > 0
    /\ Len(raised) + 1 <= MaxNotifs
    /\ nops' = nops + 1
    /\ lastOp' = "disconnect"
    /\ IF listenTask # 0
       THEN /\ tasks' = CancelTasks(tasks, listenTask)
            /\ ready' = CancelReady(ready, listenTask)
            /\ raised' = CancelRaised(raised, listenTask)
            /\ pc' = "d_await_task"
            /\ UNCHANGED <<client, state, cn>>
       ELSE /\ DisconnectClient(ready, raised)
            /\ UNCHANGED tasks
    /\ UNCHANGED <<kind, observers, nregs, nclients, connected, listenTask, ret, doneAt, recv>>
    /\ UNCHANGED <<decVars, localVars, ctxVars, cmdVars, layerVars, brainVars>>

\* self._listen_task = None, then the client part
DisconnectAfterTask ==
    /\ pc = "d_await_task"
    /\ listenTask' = 0
    /\ DisconnectClient(ready, raised)
    /\ UNCHANGED <<kind, observers, nregs, nclients, connected, tasks, nops, lastOp,
                   ret, doneAt, recv>>
    /\ UNCHANGED <<decVars, localVars, ctxVars, cmdVars, layerVars, brainVars>>

\* the client's disconnect() returned: its transport is closed (finally)
DisconnectClosed ==
    /\ pc = "d_io"
    /\ connected' = connected \ {client}
    /\ client' = 0
    /\ state' = DisconnectState
    /\ raised' = Append(raised, Notification("state", DisconnectState, FALSE, 0))
    /\ ready' = Schedule(ready, Len(raised) + 1, observers)
    /\ cn' = Len(raised) + 1
    /\ pc' = "d_notify"
    /\ UNCHANGED <<kind, observers, nregs, nclients, listenTask, tasks, nops, lastOp,
                   ret, doneAt, recv>>
    /\ UNCHANGED <<decVars, localVars, ctxVars, cmdVars, layerVars, brainVars>>

DisconnectReturn ==
    /\ pc = "d_notify"
    /\ GatherDone(cn)
    /\ pc' = "idle"
    /\ doneAt' = Len(raised)
    /\ ret' = IF GatherFailed(cn) THEN "raised" ELSE "none"
    /\ UNCHANGED <<kind, state, observers, nregs, client, nclients, connected,
                   listenTask, tasks, cn, nops, lastOp, raised, ready, recv>>
    /\ UNCHANGED <<decVars, localVars, ctxVars, cmdVars, layerVars, brainVars>>

(***************************************************************************)
(* The MQTT listen task: MQTTProtocol._listen_loop over MQTTClient.listen.  *)
(***************************************************************************)
Alive(t) == tasks[t].st # "done"

\* First step of the task: it reads self._client now, and MQTTClient.listen
\* returns at once unless that client is connected.
ListenStart(t) ==
    /\ tasks[t].st = "created"
    /\ tasks' = [tasks EXCEPT ![t] =
                    IF client # 0 /\ client \in connected
                    THEN [st |-> "listening", cl |-> client, n |-> 0]
                    ELSE [st |-> "done", cl |-> 0, n |-> 0]]
    /\ UNCHANGED <<kind, state, observers, nregs, client, nclients, connected,
                   listenTask, pc, cn, nops, lastOp, ret, doneAt, raised, ready, recv>>
    /\ UNCHANGED <<decVars, localVars, ctxVars, cmdVars, layerVars, brainVars>>

\* async for message in self._client.messages: await self._notify_message(m)
ListenMessage(t) ==
    /\ tasks[t].st = "listening"
    /\ Room(1)
    /\ raised' = Append(raised, [Notification("message", state, FALSE, t)
                                   EXCEPT !.state = "-"])
    /\ ready' = Schedule(ready, Len(raised) + 1, observers)
    /\ tasks' = [tasks EXCEPT ![t].st = "notifying", ![t].n = Len(raised) + 1]
    /\ UNCHANGED <<kind, state, observers, nregs, client, nclients, connected,
                   listenTask, pc, cn, nops, lastOp, ret, doneAt, recv>>
    /\ UNCHANGED <<decVars, localVars, ctxVars, cmdVars, layerVars, brainVars>>

\* the gather of the message's broadcast ended: back to the message loop
ListenResume(t) ==
    /\ tasks[t].st = "notifying"
    /\ GatherDone(tasks[t].n)
    /\ tasks' = [tasks EXCEPT ![t].st =
                    IF GatherFailed(tasks[t].n) THEN "crashed" ELSE "listening",
                              ![t].n = 0]
    /\ UNCHANGED <<kind, state, observers, nregs, client, nclients, connected,
                   listenTask, pc, cn, nops, lastOp, ret, doneAt, raised, ready, recv>>
    /\ UNCHANGED <<decVars, localVars, ctxVars, cmdVars, layerVars, brainVars>>

\* except Exception as e: await self._notify_state_change(ERROR, e)
ListenFail(t) ==
    /\ tasks[t].st \in {"listening", "crashed"}
    /\ Room(1)
    /\ state' = ERROR
    /\ raised' = Append(raised, Notification("state", ERROR, TRUE, t))
    /\ ready' = Schedule(ready, Len(raised) + 1, observers)
    /\ tasks' = [tasks EXCEPT ![t].st = "failing", ![t].n = Len(raised) + 1]
    /\ UNCHANGED <<kind, observers, nregs, client, nclients, connected, listenTask,
                   pc, cn, nops, lastOp, ret, doneAt, recv>>
    /\ UNCHANGED <<decVars, localVars, ctxVars, cmdVars, layerVars, brainVars>>

ListenFailDone(t) ==
    /\ tasks[t].st = "failing"
    /\ GatherDone(tasks[t].n)
    /\ tasks' = [tasks EXCEPT ![t].st = "done", ![t].n = 0]
    /\ UNCHANGED <<kind, state, observers, nregs, client, nclients, connected,
                   listenTask, pc, cn, nops, lastOp, ret, doneAt, raised, ready, recv>>
    /\ UNCHANGED <<decVars, localVars, ctxVars, cmdVars, layerVars, brainVars>>

\* Protocol.__init__ and the transports' __init__
FreshProtocol ==
    /\ state = DISCONNECTED
    /\ observers = <<>>
    /\ nregs = 0
    /\ client = 0
    /\ nclients = 0
    /\ connected = {}
    /\ listenTask = 0
    /\ tasks = <<>>
    /\ pc = "idle"
    /\ cn = 0
    /\ nops = 0
    /\ lastOp = "none"
    /\ ret = "none"
    /\ doneAt = 0
    /\ raised = <<>>
    /\ ready = <<>>
    /\ recv = [o \in Observers |-> <<>>]

NextProto ==
    \/ \E o \in Observers : AddObserver(o)
    \/ \E o \in Observers : RemoveObserver(o)
    \/ Deliver
    \/ ConnectStart
    \/ ConnectMakeClient
    \/ ConnectSucceed
    \/ ConnectRefused
    \/ ConnectRaises
    \/ ConnectStartListening
    \/ ConnectReturnFalse
    \/ DisconnectStart
    \/ DisconnectAfterTask
    \/ DisconnectClosed
    \/ DisconnectReturn
    \/ \E t \in DOMAIN tasks : ListenStart(t)
    \/ \E t \in DOMAIN tasks : ListenMessage(t)
    \/ \E t \in DOMAIN tasks : ListenResume(t)
    \/ \E t \in DOMAIN tasks : ListenFail(t)
    \/ \E t \in DOMAIN tasks : ListenFailDone(t)


(***************************************************************************)
(* publish / subscribe / unsubscribe / send_command.  A call reads          *)
(* self._client and the client's connection when it is made; whether the   *)
(* transport then fails is the environment's choice.  The call changes      *)
(* nothing of the protocol: what it did is recorded in cmd.                 *)
(***************************************************************************)
NoCmd == [op |-> "none"]

\* the parameters dictionaries tried: empty, with a url, asking for a response
Parameters == {{}, {"url"}, {"wait_for_response"}}

HasClient == client # 0

\* MQTTClient._connected, HTTPClient._client, WebSocketClient._connection
ClientOpen == client # 0 /\ client \in connected

\* a client call that forgot the connection check
ClientCallUnguarded(open, fails) == ~fails

\* MQTTClient.publish / subscribe / unsubscribe, WebSocketClient.send:
\* False unless connected, and False when the transport raises
ClientCall(open, fails) == open /\ ~fails

\* the transport calls one such call makes
ClientAttempts(open) == IF open THEN 1 ELSE 0

\* MQTTProtocol.publish / subscribe / unsubscribe
MQTTCall(hasClient, open, fails) ==
    IF ~hasClient THEN FALSE ELSE ClientCall(open, fails)

Returned3(op, open, fails, value, attempts) ==
    [op |-> op, kind |-> kind, hasClient |-> HasClient, open |-> open,
     fails |-> fails, raised |-> "none",
     success |-> IF value THEN "true" ELSE "false",
     keys |-> {}, attempts |-> attempts]

MQTTBoolCall(op, fails) ==
    /\ kind = "mqtt"
    /\ ncmds < MaxCmds
    /\ ncmds' = ncmds + 1
    /\ cmd' = Returned3(op, ClientOpen, fails,
                        MQTTCall(HasClient, ClientOpen, fails),
                        IF HasClient THEN ClientAttempts(ClientOpen) ELSE 0)
    /\ UNCHANGED <<protoVars, decVars, localVars, ctxVars, layerVars, brainVars>>

Publish(fails) == MQTTBoolCall("publish", fails)

Subscribe(fails) == MQTTBoolCall("subscribe", fails)

Unsubscribe(fails) == MQTTBoolCall("unsubscribe", fails)

CommandRaised(e) == [raised |-> e, success |-> "absent", keys |-> {}]

CommandResult(success, keys) ==
    [raised |-> "none", success |-> success, keys |-> keys]

BoolText(b) == IF b THEN "true" ELSE "false"

\* MQTTProtocol.send_command
MQTTSendCommand(hasClient, open, fails) ==
    IF ~hasClient
    THEN CommandRaised("RuntimeError")
    ELSE CommandResult(BoolText(ClientCall(open, fails)),
                       {"success", "device_id", "topic", "payload", "qos", "retain"})

\* HTTPProtocol.send_command over HTTPClient.request
HTTPSendCommand(hasClient, open, fails, parameters) ==
    IF ~hasClient THEN CommandRaised("RuntimeError")
    ELSE IF "url" \notin parameters THEN CommandRaised("ValueError")
    ELSE IF ~open \/ fails THEN CommandRaised("RuntimeError")
    ELSE CommandResult("absent",
                       {"status_code", "headers", "data", "device_id", "command"})

\* WebSocketProtocol.send_command over WebSocketClient.send
WebSocketSendCommand(hasClient, open, fails, parameters) ==
    IF ~hasClient THEN CommandRaised("RuntimeError")
    ELSE IF ClientCall(open, fails)
    THEN CommandResult("true",
                       {"success", "device_id", "command"} \cup
                       (IF "wait_for_response" \in parameters
                        THEN {"response"} ELSE {}))
    ELSE CommandResult("false", {"success", "device_id", "command", "error"})

SendCommandOutcome(fails, parameters) ==
    CASE kind = "mqtt" -> MQTTSendCommand(HasClient, ClientOpen, fails)
      [] kind = "http" -> HTTPSendCommand(HasClient, ClientOpen, fails, parameters)
      [] kind = "websocket" ->
            WebSocketSendCommand(HasClient, ClientOpen, fails, parameters)

SendCommand(fails, parameters) ==
    /\ ncmds < MaxCmds
    /\ ncmds' = ncmds + 1
    /\ cmd' = LET out == SendCommandOutcome(fails, parameters)
              IN  [op |-> "send_command", kind |-> kind, hasClient |-> HasClient,
                   open |-> ClientOpen, fails |-> fails, raised |-> out.raised,
                   success |-> out.success, keys |-> out.keys,
                   attempts |-> IF HasClient /\ (kind = "http" => "url" \in parameters)
                                THEN ClientAttempts(ClientOpen) ELSE 0]
    /\ UNCHANGED <<protoVars, decVars, localVars, ctxVars, layerVars, brainVars>>

FreshCommands == cmd = NoCmd /\ ncmds = 0

\* one observer registers; connect(), disconnect() and the listen task run as
\* before, and commands are sent at any moment
NextCommand ==
    \/ AddObserver("o1")
    \/ Deliver
    \/ ConnectStart
    \/ ConnectMakeClient
    \/ ConnectSucceed
    \/ ConnectRefused
    \/ ConnectRaises
    \/ ConnectStartListening
    \/ ConnectReturnFalse
    \/ DisconnectStart
    \/ DisconnectAfterTask
    \/ DisconnectClosed
    \/ DisconnectReturn
    \/ \E t \in DOMAIN tasks : ListenStart(t)
    \/ \E t \in DOMAIN tasks : ListenMessage(t)
    \/ \E t \in DOMAIN tasks : ListenResume(t)
    \/ \E t \in DOMAIN tasks : ListenFail(t)
    \/ \E t \in DOMAIN tasks : ListenFailDone(t)
    \/ \E fails \in BOOLEAN : Publish(fails)
    \/ \E fails \in BOOLEAN : Subscribe(fails)
    \/ \E fails \in BOOLEAN : Unsubscribe(fails)
    \/ \E fails \in BOOLEAN, parameters \in Parameters : SendCommand(fails, parameters)

(***************************************************************************)
(* Protocol layer: properties.                                              *)
(***************************************************************************)
InSeq(x, q) == \E i \in DOMAIN q : q[i] = x

\* the caller's call has returned and no other call has started
Returned(op) == lastOp = op /\ pc = "idle"

\* the ERROR notifications observer o received
ErrorsReceived(o) ==
    {i \in DOMAIN recv[o] :
        raised[recv[o][i]].kind = "state" /\ raised[recv[o][i]].state = ERROR}

\* C1: MQTTProtocol.connect() on a fresh instance with the broker unreachable:
\* the state goes DISCONNECTED -> CONNECTING -> ERROR, connect() returns
\* false, and every registered observer receives exactly one on_state_change
\* with state ERROR, whose error argument is non-null.
C1_UnreachableBrokerReportsError ==
    (kind = "mqtt" /\ nops = 1 /\ Returned("connect") /\ ret # "true") =>
        /\ ret = "false"
        /\ state = ERROR
        /\ Len(raised) = 2
        /\ raised[1].prev = DISCONNECTED /\ raised[1].state = CONNECTING
        /\ raised[2].prev = CONNECTING /\ raised[2].state = ERROR
        /\ \A o \in SeqRange(raised[2].to) :
              /\ Cardinality(ErrorsReceived(o)) = 1
              /\ \A i \in ErrorsReceived(o) : raised[recv[o][i]].error

\* What the code does in the case of C1: everything the claim says, except
\* that the ERROR notification carries no error.
C1_UnreachableBrokerObserved ==
    (kind = "mqtt" /\ nops = 1 /\ Returned("connect") /\ ret # "true") =>
        /\ ret = "false"
        /\ state = ERROR
        /\ Len(raised) = 2
        /\ raised[1].prev = DISCONNECTED /\ raised[1].state = CONNECTING
        /\ raised[2].prev = CONNECTING /\ raised[2].state = ERROR
        /\ \A o \in SeqRange(raised[2].to) :
              /\ Cardinality(ErrorsReceived(o)) = 1
              /\ \A i \in ErrorsReceived(o) : ~raised[recv[o][i]].error

\* the notification a step raises, if it raises one
Raising == Len(raised') = Len(raised) + 1

ByListenTask == Raising /\ raised'[Len(raised')].by # 0

ByCaller == Raising /\ raised'[Len(raised')].by = 0

ClaimedTransitions ==
    {<<DISCONNECTED, CONNECTING>>, <<CONNECTING, CONNECTED>>,
     <<CONNECTING, ERROR>>, <<CONNECTED, DISCONNECTED>>}

\* C2 as claimed: the state starts as DISCONNECTED and every change of it is
\* DISCONNECTED->CONNECTING, CONNECTING->CONNECTED, CONNECTING->ERROR,
\* CONNECTED->DISCONNECTED, or a change to ERROR by a mid-session failure
\* (the listen loop's).
C2_OnlyClaimedTransitions ==
    [][state' # state =>
          \/ <<state, state'>> \in ClaimedTransitions /\ ByCaller
          \/ state' = ERROR /\ ByListenTask]_protoVars

\* the changes the code also makes: disconnect() after a failure, connect()
\* called again, and connect() succeeding after a listen task of an earlier
\* connect() failed meanwhile
RepeatedCallTransitions ==
    {<<ERROR, DISCONNECTED>>, <<ERROR, CONNECTING>>, <<CONNECTED, CONNECTING>>,
     <<ERROR, CONNECTED>>}

\* C2 (amended): every change of the state is one of the claimed ones, or
\* ERROR->DISCONNECTED (disconnect), ERROR->CONNECTING or
\* CONNECTED->CONNECTING (connect called again), or ERROR->CONNECTED
\* (connect succeeds after a listen task failed meanwhile); RECONNECTING is
\* never entered.
C2_Transitions ==
    [][state' # state =>
          \/ /\ <<state, state'>> \in ClaimedTransitions \cup RepeatedCallTransitions
             /\ ByCaller
          \/ state' = ERROR /\ ByListenTask]_protoVars

\* disconnect() after a failed connect() has moved ERROR to DISCONNECTED
C2_Witness ==
    \E n \in DOMAIN raised :
        /\ raised[n].kind = "state"
        /\ raised[n].prev = ERROR
        /\ raised[n].state = DISCONNECTED

\* C3 as claimed: when a broadcast has ended, every observer registered when
\* it was raised has had its callback run, and no observer's exception made
\* connect(), disconnect() or the listen loop fail.
C3_EveryObserverNotified ==
    /\ \A n \in DOMAIN raised :
          ~Pending(n) => \A o \in SeqRange(raised[n].to) : InSeq(n, recv[o])
    /\ ret # "raised"
    /\ \A t \in DOMAIN tasks : tasks[t].st # "crashed"

\* C3 (amended): the same, except for a broadcast of the listen task that
\* disconnect() cancelled before its callbacks ran.
C3_EveryObserverNotifiedUnlessCancelled ==
    /\ \A n \in DOMAIN raised :
          (~Pending(n) /\ ~raised[n].cancelled) =>
              \A o \in SeqRange(raised[n].to) : InSeq(n, recv[o])
    /\ ret # "raised"
    /\ \A t \in DOMAIN tasks : tasks[t].st # "crashed"

\* the raising observer was called first, the other one was still notified,
\* and connect() returned true
C3_Witness ==
    /\ Returned("connect")
    /\ ret = "true"
    /\ raised[cn].to = <<"o2", "o1">>
    /\ InSeq(cn, recv["o2"])
    /\ InSeq(cn, recv["o1"])

\* C4: an observer receives the notifications of one protocol instance in
\* the order in which they were raised, whichever task raised them.
C4_NotificationsInOrder ==
    \A o \in Observers :
        \A i, j \in DOMAIN recv[o] : i < j => recv[o][i] < recv[o][j]

\* an observer received a message raised by the listen task between the
\* CONNECTING and the next notification of one connect() call
C4_Witness ==
    \E o \in Observers :
        \E i \in DOMAIN recv[o] :
            /\ i + 2 \in DOMAIN recv[o]
            /\ raised[recv[o][i]].by = 0
            /\ raised[recv[o][i + 1]].kind = "message"
            /\ raised[recv[o][i + 2]].by = 0
            /\ raised[recv[o][i]].state = CONNECTING
            /\ raised[recv[o][i + 2]].prev = CONNECTING

\* C5: once MQTTProtocol.disconnect() has returned, the state is
\* DISCONNECTED, no listen task of the instance is running, and no observer
\* is delivered a further on_message.
C5_DisconnectStopsListening ==
    [][Returned("disconnect") =>
          /\ state = DISCONNECTED
          /\ \A t \in DOMAIN tasks : ~Alive(t)
          /\ \A o \in Observers :
                recv'[o] # recv[o] =>
                    raised[recv'[o][Len(recv'[o])]].kind # "message"]_protoVars

(***************************************************************************)
(* DecisionEngine: data.  Confidences and factor values are in hundredths  *)
(* (0.9 is 90), factor weights in hundredths (0.3 is 30), so a decision's  *)
(* confidence, base * sum(weight * value), is in millionths.               *)
(***************************************************************************)
None == "none"

IntentTypes == {"control", "query", "automation", "scene", "routine", "diagnostic"}

\* "eteins" and "desactive" stand for the accented words of the source.
OffActions == {"eteins", "desactive"}

\* A rule's condition is a dict; the keys _rule_matches reads are
\* "intent_type", "entities" and "context".  The built-in rules spell their
\* entity requirement under the key "entities.action" / "entities.scene"
\* (field dotted), which _rule_matches never reads.
Rule(t, dotted, a, tg, par, prio, conf) ==
    [condition |-> [intent_type |-> t, dotted |-> dotted],
     action |-> a, target |-> tg, parameters |-> par,
     priority |-> prio, confidence |-> conf]

\* DecisionEngine._initialize_rules
InitializeRules ==
    << Rule("control", <<"action", {"allume", "active"}>>,
            "turn_on", "living_room_light", "none", 1, 90),
       Rule("control", <<"action", OffActions>>,
            "turn_off", "living_room_light", "none", 1, 90),
       Rule("query", <<>>, "query_status", "all_devices", "none", 2, 80),
       Rule("scene", <<"scene", {"cinema"}>>,
            "activate_scene", "living_room", "cinema", 1, 85),
       Rule("scene", <<"scene", {"lecture", "reading"}>>,
            "activate_scene", "living_room", "reading", 1, 85),
       Rule("automation", <<>>, "create_automation", "system", "none", 3, 70),
       Rule("diagnostic", <<>>, "diagnose", "system", "none", 4, 60) >>

\* A rule written with the keys _rule_matches reads.
KeyedRule(cond, a, tg, prio, conf) ==
    [condition |-> cond, action |-> a, target |-> tg, parameters |-> "none",
     priority |-> prio, confidence |-> conf]

Min(a, b) == IF a < b THEN a ELSE b

Max(a, b) == IF a < b THEN b ELSE a

(***************************************************************************)
(* DecisionEngine: local rule evaluation.                                   *)
(***************************************************************************)
\* DecisionEngine._rule_matches
RuleMatches(rule, intent, context) ==
    /\ "intent_type" \in DOMAIN rule.condition =>
          intent.type = rule.condition.intent_type
    /\ "entities" \in DOMAIN rule.condition =>
          \A cat \in DOMAIN rule.condition.entities :
              /\ cat \in DOMAIN intent.entities
              /\ intent.entities[cat] \cap rule.condition.entities[cat] # {}
    /\ "context" \in DOMAIN rule.condition =>
          \A key \in DOMAIN rule.condition.context :
              context[key] = rule.condition.context[key]

\* DecisionEngine._evaluate_rules: the matching rules, in list order
EvaluateRules(rs, intent, context) ==
    SelectSeq(rs, LAMBDA r : RuleMatches(r, intent, context))

\* max(matching_rules, key=lambda r: (r.priority, r.confidence)): the first
\* rule of the list whose key no other rule's exceeds
\* an order that looks at the confidence before the priority
KeyLessConfidenceFirst(a, b) ==
    \/ a.confidence < b.confidence
    \/ a.confidence = b.confidence /\ a.priority < b.priority

KeyLess(a, b) ==
    \/ a.priority < b.priority
    \/ a.priority = b.priority /\ a.confidence < b.confidence

BestRule(matching) ==
    matching[CHOOSE i \in DOMAIN matching :
                /\ \A j \in DOMAIN matching : ~KeyLess(matching[i], matching[j])
                /\ \A j \in 1..(i - 1) : KeyLess(matching[j], matching[i])]

\* DecisionEngine._calculate_context_factor
CalculateContextFactor(context) ==
    Min(100, 50 + (IF context.location # None THEN 10 ELSE 0)
                + (IF context.weather THEN 10 ELSE 0)
                + (IF context.device_states THEN 20 ELSE 0)
                + (IF context.user_preferences # {} THEN 10 ELSE 0))

\* DecisionEngine._calculate_time_factor
CalculateTimeFactor(context) ==
    CASE context.time_of_day = "morning" -> 80
      [] context.time_of_day = "afternoon" -> 90
      [] context.time_of_day = "evening" -> 70
      [] context.time_of_day = "night" -> 50
      [] OTHER -> 50

\* DecisionEngine._calculate_preference_factor
CalculatePreferenceFactor(context) ==
    IF "auto_optimization" \in context.user_preferences THEN 90 ELSE 50

\* DecisionEngine._calculate_energy_factor
CalculateEnergyFactor(intent, context) ==
    IF /\ intent.type = "control"
       /\ "action" \in DOMAIN intent.entities
       /\ intent.entities.action \cap OffActions # {}
    THEN 90
    ELSE 50

\* DecisionEngine._calculate_privacy_factor
CalculatePrivacyFactor(intent, context) ==
    IF intent.type = "query" THEN 80 ELSE 50

MinConfidence == 100000

MaxConfidence == 1000000

\* return max(0.1, min(1.0, confidence))
\* a normalisation that forgot the lower bound
ClampUpperOnly(c) == Min(MaxConfidence, c)

Clamp(c) == Max(MinConfidence, Min(MaxConfidence, c))

\* confidence = base_confidence * (intent_factor + ... + privacy_factor)
CombineFactors(base, fIntent, fContext, fTime, fPref, fEnergy, fPrivacy) ==
    Clamp(base * (fIntent * 30 + fContext * 20 + fTime * 15
                  + fPref * 20 + fEnergy * 10 + fPrivacy * 5))

\* DecisionEngine._calculate_confidence
CalculateConfidence(intent, context, rule) ==
    CombineFactors(rule.confidence,
                   intent.confidence,
                   CalculateContextFactor(context),
                   CalculateTimeFactor(context),
                   CalculatePreferenceFactor(context),
                   CalculateEnergyFactor(intent, context),
                   CalculatePrivacyFactor(intent, context))

\* f"{confidence:.2f}": the confidence rounded to hundredths
Format2(c) == (c + 5000) \div 10000

\* DecisionEngine._generate_reasoning: the parts joined by ". "
GenerateReasoning(intent, context, rule) ==
    <<"Intention", intent.type>>
    \o (IF context.time_of_day # None
        THEN <<"Moment", context.time_of_day>> ELSE <<>>)
    \o (IF context.location # None
        THEN <<"Localisation", context.location>> ELSE <<>>)
    \o <<"Regle", rule.action, rule.target>>
    \o <<"Confiance", Format2(CalculateConfidence(intent, context, rule))>>

\* DecisionEngine._generate_alternatives
GenerateAlternatives(matching, selected) ==
    LET others == SelectSeq(matching, LAMBDA r : r # selected)
    IN  [i \in DOMAIN others |->
            [action |-> others[i].action,
             target |-> others[i].target,
             parameters |-> others[i].parameters,
             confidence |-> others[i].confidence * 8000,
             reasoning |-> <<"Alternative", others[i].action, others[i].target>>]]

\* a no-match Decision that claims full confidence
NoMatchDecisionSure(t) ==
    [action |-> "noop", target |-> "", parameters |-> "none",
     confidence |-> MaxConfidence, reasoning |-> <<"Aucune regle">>,
     alternatives |-> <<>>, timestamp |-> t]

\* return Decision(action="noop", target="", parameters={}, confidence=0.1, ...)
NoMatchDecision(t) ==
    [action |-> "noop", target |-> "", parameters |-> "none",
     confidence |-> MinConfidence, reasoning |-> <<"Aucune regle">>,
     alternatives |-> <<>>, timestamp |-> t]

\* DecisionEngine._make_local_decision, at time t
MakeLocalDecision(rs, intent, context, t) ==
    LET matching == EvaluateRules(rs, intent, context)
    IN  IF matching # <<>>
        THEN [action |-> BestRule(matching).action,
              target |-> BestRule(matching).target,
              parameters |-> BestRule(matching).parameters,
              confidence |-> CalculateConfidence(intent, context, BestRule(matching)),
              reasoning |-> GenerateReasoning(intent, context, BestRule(matching)),
              alternatives |-> GenerateAlternatives(matching, BestRule(matching)),
              timestamp |-> t]
        ELSE NoMatchDecision(t)

(***************************************************************************)
(* DecisionEngine: make_decision, its cache and the remote delegate.        *)
(***************************************************************************)
\* intent.text[:20]
TextPrefixLen == 20

Take(text, n) == SubSeq(text, 1, Min(n, Len(text)))

\* DecisionEngine._get_decision_cache_key
GetDecisionCacheKey(intent, context) ==
    <<"decision", intent.type, Take(intent.text, TextPrefixLen),
      context.user_id, context.time_of_day>>

\* dict.get(key, default)
Get(d, k, default) == IF k \in DOMAIN d THEN d[k] ELSE default

DefaultRemoteConfidence == 500000

\* Decision(action=decision_data.get("action", "noop"), ...), at time t
DecisionFromResponse(data, t) ==
    [action |-> Get(data, "action", "noop"),
     target |-> Get(data, "target", ""),
     parameters |-> Get(data, "parameters", "none"),
     confidence |-> Get(data, "confidence", DefaultRemoteConfidence),
     reasoning |-> Get(data, "reasoning", <<"No reasoning provided">>),
     alternatives |-> Get(data, "alternatives", <<>>),
     timestamp |-> Get(data, "timestamp", t)]

\* How the delegate call can fail: raise_for_status on a 4xx/5xx answer, a
\* transport error or a timeout (httpx.HTTPError); a body that is no JSON or
\* a timestamp that is no ISO date (ValueError).
Failures == {"HTTPError", "ValueError"}

\* make_decision: except Exception
\* except httpx.HTTPError only
CaughtHTTPOnly(e) == e = "HTTPError"

Caught(e) == e \in {"HTTPError", "ValueError"}

\* The decision make_decision builds when the delegate call failed.
FallbackDecision(rs, intent, context, t) == MakeLocalDecision(rs, intent, context, t)

\* the result slot of a call that has not returned
NoDecision ==
    [action |-> "", target |-> "", parameters |-> "none", confidence |-> 0,
     reasoning |-> <<>>, alternatives |-> <<>>, timestamp |-> 0]

\* a lookup that never hits
CacheHitNever(cache, key) == FALSE

\* if cache_key in self._decision_cache
CacheHit(cache, key) == key \in DOMAIN cache

\* cache_key in self._decision_cache: return the cached Decision; else the
\* call awaits the delegate.
MakeDecisionStart(intent, context) ==
    /\ Len(calls) < MaxCalls
    /\ now' = now + 1
    /\ LET key == GetDecisionCacheKey(intent, context)
           returned == {k \in DOMAIN calls : calls[k].st # "pending"}
       IN  calls' = Append(calls,
                [intent |-> intent, context |-> context, after |-> returned,
                 st |-> IF CacheHit(dcache, key) THEN "returned" ELSE "pending",
                 via |-> IF CacheHit(dcache, key) THEN "cache" ELSE "none",
                 fail |-> "none",
                 at |-> IF CacheHit(dcache, key) THEN now ELSE 0,
                 decision |-> IF CacheHit(dcache, key)
                              THEN dcache[key]
                              ELSE NoDecision])
    /\ UNCHANGED <<rules, dcache>>
    /\ UNCHANGED <<protoVars, localVars, ctxVars, cmdVars, layerVars, brainVars>>

\* the delegate answered: the Decision is built from the answer and cached
MakeDecisionRemote(k, data) ==
    /\ calls[k].st = "pending"
    /\ now' = now + 1
    /\ LET d == DecisionFromResponse(data, now)
       IN  /\ calls' = [calls EXCEPT ![k].st = "returned", ![k].via = "remote",
                                     ![k].at = now, ![k].decision = d]
           /\ dcache' = (GetDecisionCacheKey(calls[k].intent, calls[k].context) :> d)
                        @@ dcache
    /\ UNCHANGED rules
    /\ UNCHANGED <<protoVars, localVars, ctxVars, cmdVars, layerVars, brainVars>>

\* the delegate call failed with e: the local rules decide, and the Decision
\* is cached
MakeDecisionFallback(k, e) ==
    /\ calls[k].st = "pending"
    /\ now' = now + 1
    /\ IF Caught(e)
       THEN LET d == FallbackDecision(rules, calls[k].intent, calls[k].context, now)
            IN  /\ calls' = [calls EXCEPT ![k].st = "returned", ![k].via = "local",
                                          ![k].fail = e, ![k].at = now,
                                          ![k].decision = d]
                /\ dcache' = (GetDecisionCacheKey(calls[k].intent, calls[k].context) :> d)
                             @@ dcache
       ELSE /\ calls' = [calls EXCEPT ![k].st = "raised", ![k].fail = e,
                                          ![k].at = now]
            /\ UNCHANGED dcache
    /\ UNCHANGED rules
    /\ UNCHANGED <<protoVars, localVars, ctxVars, cmdVars, layerVars, brainVars>>

\* Intent.text as a sequence of characters
Fill(ch, n) == [i \in 1..n |-> ch]

LongText(last) == Fill("a", TextPrefixLen) \o <<last>>

Intents ==
    {[type |-> "control", text |-> LongText("x"), confidence |-> 90,
      entities |-> [action |-> {"allume"}]],
     [type |-> "control", text |-> LongText("y"), confidence |-> 80,
      entities |-> [action |-> {"eteins"}]],
     [type |-> "routine", text |-> <<"b">>, confidence |-> 50,
      entities |-> [device |-> {"lumiere"}]]}

Contexts ==
    {[user_id |-> "u1", time_of_day |-> "evening", location |-> "home",
      weather |-> TRUE, device_states |-> TRUE,
      user_preferences |-> {"auto_optimization", "theme"}],
     [user_id |-> None, time_of_day |-> None, location |-> None,
      weather |-> FALSE, device_states |-> FALSE, user_preferences |-> {}]}

\* Rule sets: the built-in one, and one whose conditions use the keys
\* _rule_matches reads.
KeyedRules ==
    << KeyedRule([intent_type |-> "control", entities |-> [action |-> {"allume"}]],
                 "turn_on", "lamp", 1, 100),
       KeyedRule([intent_type |-> "control", context |-> [location |-> "home"]],
                 "dim", "lamp", 2, 40),
       KeyedRule([entities |-> [device |-> {"lumiere"}]], "toggle", "lamp", 2, 0) >>

RuleSets == {InitializeRules, KeyedRules}

\* What the delegate answers with status 200: a JSON object, any of whose
\* keys may be missing.
Responses ==
    {[action |-> "turn_on", target |-> "living_room_light", confidence |-> 800000],
     [action |-> "turn_on", confidence |-> 1700000],
     [target |-> "living_room_light"]}

\* DecisionEngine.__init__: rules and factors initialised, the cache empty;
\* a test or a deployment may replace the rule list.
FreshEngine ==
    /\ dcache = <<>>
    /\ calls = <<>>
    /\ now = 1

NextDecision ==
    \/ \E i \in Intents, c \in Contexts : MakeDecisionStart(i, c)
    \/ \E k \in DOMAIN calls, data \in Responses : MakeDecisionRemote(k, data)
    \/ \E k \in DOMAIN calls, e \in Failures : MakeDecisionFallback(k, e)

(***************************************************************************)
(* Local rule evaluation applied to one input.                              *)
(***************************************************************************)
\* confidences and factor values, in hundredths
(***************************************************************************)
(* IntentParser.  A text is the sequence of its words, lower-cased and      *)
(* separated by blanks; the words stand for the French ones without their   *)
(* accents.                                                                 *)
(***************************************************************************)
\* dict order of scores: the members of IntentType as declared
IntentTypeOrder ==
    <<"control", "query", "automation", "scene", "routine", "diagnostic">>

\* the words texts are made of
Words ==
    {"allume", "eteins", "active", "desactive", "mode", "cinema", "quand",
     "lumiere", "le"}

Texts == UNION {[1..n -> Words] : n \in 1..MaxWords}

\* k occurs in the word w: re.search and `keyword in text` look for
\* substrings, and "active" ends "desactive"
Contains(w, k) == w = k \/ (k = "active" /\ w = "desactive")

\* r"(a|b|...)\s+(.+?)(\s|$)": one of the heads, then after further words
Pattern(heads) == [heads |-> heads, after |-> 1]

\* self.patterns
Patterns(t) ==
    CASE t = "control" ->
            << Pattern({"allume", "eteins", "active", "desactive", "mets",
                        "change", "regle", "ajuste"}),
               Pattern({"lumiere", "lampe", "eclairage", "interrupteur"}),
               Pattern({"augmente", "diminue", "monte", "descends"}) >>
      [] t = "query" ->
            << Pattern({"combien", "quelle", "quel", "quelles", "quels", "etat",
                        "statut", "valeur"}),
               Pattern({"temperature", "humidite", "luminosite", "pression"}),
               [heads |-> {"est-ce", "est ce"}, after |-> 2] >>
      [] t = "scene" ->
            << Pattern({"scene", "mode", "ambiance", "atmosphere"}),
               Pattern({"cinema", "lecture", "diner", "romantique", "travail",
                        "relax"}),
               Pattern({"mets", "active", "lance"}) >>
      [] t = "automation" ->
            << Pattern({"quand", "si", "lorsque", "des que"}),
               Pattern({"automatise", "programme", "planifie"}),
               Pattern({"routine", "automatisation", "scenario"}) >>
      [] OTHER -> <<>>

\* keyword_mapping
KeywordMapping(t) ==
    CASE t = "control" -> {"allume", "eteins", "active", "desactive", "mets", "change"}
      [] t = "query" -> {"combien", "quelle", "quel", "etat", "statut", "valeur"}
      [] t = "scene" -> {"scene", "mode", "ambiance", "atmosphere", "cinema"}
      [] t = "automation" -> {"quand", "si", "automatise", "programme", "routine"}
      [] t = "routine" -> {"routine", "habitude", "quotidien", "matin", "soir"}
      [] t = "diagnostic" -> {"probleme", "erreur", "ne marche pas", "dysfonctionne"}

\* re.search(pattern, text)
PatternMatches(pat, text) ==
    \E i \in 1..(Len(text) - pat.after) : \E h \in pat.heads : Contains(text[i], h)

PatternHits(t, text) ==
    Cardinality({j \in DOMAIN Patterns(t) : PatternMatches(Patterns(t)[j], text)})

KeywordHits(t, text) ==
    Cardinality({k \in KeywordMapping(t) : \E i \in DOMAIN text : Contains(text[i], k)})

\* scores[intent_type], in tenths: 0.3 a pattern, 0.2 a keyword
Score(t, text) == 3 * PatternHits(t, text) + 2 * KeywordHits(t, text)

\* The order of the scores as floats: it is the order of the tenths, except
\* that 0.2 + 0.2 + 0.2 is above 0.3 + 0.3.
FloatRank(t, text) ==
    2 * Score(t, text)
    + (IF PatternHits(t, text) = 0 /\ KeywordHits(t, text) = 3 THEN 1 ELSE 0)

RECURSIVE SumScores(_, _)
SumScores(n, text) ==
    IF n = 0 THEN 0 ELSE SumScores(n - 1, text) + Score(IntentTypeOrder[n], text)

TotalScore(text) == SumScores(Len(IntentTypeOrder), text)

\* max(scores.items(), key=lambda x: x[1]): the first of the highest
BestType(text) ==
    IntentTypeOrder[
        CHOOSE i \in DOMAIN IntentTypeOrder :
            /\ \A j \in DOMAIN IntentTypeOrder :
                  FloatRank(IntentTypeOrder[j], text) <= FloatRank(IntentTypeOrder[i], text)
            /\ \A j \in 1..(i - 1) :
                  FloatRank(IntentTypeOrder[j], text) < FloatRank(IntentTypeOrder[i], text)]

\* the raw score, never divided by the total
NotNormalised(t, text) == Score(t, text) * (MaxConfidence \div 10)

\* scores[intent_type] /= total_score, in millionths
Normalised(t, text) ==
    IF TotalScore(text) > 0
    THEN (Score(t, text) * MaxConfidence) \div TotalScore(text)
    ELSE 0

\* IntentParser._detect_intent_type
DetectIntentType(text) ==
    IF Normalised(BestType(text), text) < MinConfidence
    THEN [type |-> "control", confidence |-> MinConfidence]
    ELSE [type |-> BestType(text), confidence |-> Normalised(BestType(text), text)]

\* self.entity_patterns: the alternatives of the categories whose words the
\* texts can hold
EntityPatterns(c) ==
    CASE c = "device" ->
            {"lumiere", "lampe", "eclairage", "interrupteur", "prise", "capteur",
             "thermostat", "salon", "cuisine", "chambre", "bureau", "couloir",
             "jardin"}
      [] c = "action" ->
            {"allume", "eteins", "active", "desactive", "mets", "change",
             "augmente", "diminue", "monte", "descends", "regle", "ajuste"}

\* re.findall over a word: the leftmost alternative that matches, which for
\* "desactive" is the whole word
EntityValues(c, text) == {text[i] : i \in DOMAIN text} \cap EntityPatterns(c)

\* IntentParser._extract_entities: a category is present if it has a value
ExtractEntities(text) ==
    [c \in {c \in {"device", "action"} : EntityValues(c, text) # {}} |->
        EntityValues(c, text)]

\* IntentParser.parse
Parse(text) ==
    [type |-> DetectIntentType(text).type, text |-> text,
     confidence |-> DetectIntentType(text).confidence,
     entities |-> ExtractEntities(text)]

(***************************************************************************)
(* AIService._decision_to_command.  A payload and a parameters dictionary   *)
(* are functions from their keys.                                           *)
(***************************************************************************)
EmptyPayload == [k \in {} |-> 0]

\* a table whose on and off entries are exchanged
CommandMapSwapped(parameters) ==
    [turn_on |-> [on |-> FALSE],
     turn_off |-> [on |-> TRUE],
     set_brightness |-> [bri |-> Get(parameters, "brightness", 100)],
     set_color |-> [hue |-> Get(parameters, "hue", 0),
                    sat |-> Get(parameters, "saturation", 100)],
     query_status |-> [query |-> "status"]]

\* command_map, built anew from decision.parameters at every call
CommandMap(parameters) ==
    [turn_on |-> [on |-> TRUE],
     turn_off |-> [on |-> FALSE],
     set_brightness |-> [bri |-> Get(parameters, "brightness", 100)],
     set_color |-> [hue |-> Get(parameters, "hue", 0),
                    sat |-> Get(parameters, "saturation", 100)],
     query_status |-> [query |-> "status"]]

\* return command_map.get(decision.action, {})
DecisionToCommand(decision) ==
    Get(CommandMap(decision.parameters), decision.action, EmptyPayload)

\* the actions a Decision may name: those of the table, and two others
CommandActions ==
    {"turn_on", "turn_off", "set_brightness", "set_color", "query_status",
     "noop", "activate_scene"}

\* the parameters dictionaries tried: any of the keys the table reads
ParameterDicts ==
    UNION {[keys -> {0, 50}] : keys \in SUBSET {"brightness", "hue", "saturation"}}

(***************************************************************************)
(* DeviceProtocol / LightProtocol.get_capabilities.  The raw state of a     *)
(* device is the set of its fields: only their presence is read.            *)
(***************************************************************************)
StateFields == {"bri", "hue", "xy", "ct", "on"}

\* raw device data: without a state, or with a state of any fields
DeviceDatas ==
    {[k \in {} |-> {}]} \cup {[state |-> st] : st \in SUBSET StateFields}

\* DeviceProtocol.get_capabilities: the body is `pass`, so it returns None
DeviceGetCapabilities(device_data) == None

\* capabilities.update({...}); return capabilities: with capabilities None,
\* the update raises AttributeError
LightGetCapabilities(device_data) ==
    LET capabilities == DeviceGetCapabilities(device_data)
        raw == Get(device_data, "state", {})
    IN  IF capabilities = None
        THEN [raised |-> "AttributeError", capabilities |-> None]
        ELSE [raised |-> "none",
              capabilities |->
                  [has_color |-> "hue" \in raw \/ "xy" \in raw,
                   has_brightness |-> "bri" \in raw,
                   has_ct |-> "ct" \in raw,
                   has_on_off |-> "on" \in raw] @@ capabilities]

Grid == {0, 50, 100}

ProbeIntents ==
    [type : IntentTypes, text : {<<"b">>}, confidence : {0, 5, 50, 100},
     entities : {[action |-> {"allume"}], [action |-> {"eteins"}],
                 [device |-> {"lumiere"}]}]

ProbeContexts ==
    [user_id : {"u1"}, time_of_day : {None, "morning", "afternoon", "night"},
     location : {None, "home"}, weather : BOOLEAN, device_states : BOOLEAN,
     user_preferences : {{}, {"auto_optimization"}, {"theme"}}]

\* a rule with the base confidence c
ProbeRule(c) == KeyedRule([intent_type |-> "control"], "turn_on", "lamp", 1, c)

Probes ==
    [op : {"calculate_confidence"}, intent : ProbeIntents, context : ProbeContexts,
     base : {0, 1, 60, 100}]
    \cup [op : {"combine"}, base : Grid, factors : [1..6 -> Grid]]
    \cup [op : {"make_local_decision"}, rs : RuleSets, intent : Intents,
          context : Contexts]
    \cup [op : {"parse"}, text : Texts]
    \cup [op : {"decision_to_command"}, action : CommandActions,
          parameters : ParameterDicts]
    \cup [op : {"get_capabilities"}, device_data : DeviceDatas]

NoOutput == [op |-> "none"]

\* confidence = self._calculate_confidence(intent, context, best_rule)
ApplyCalculateConfidence ==
    /\ probe.op = "calculate_confidence"
    /\ probeOut = NoOutput
    /\ probeOut' = [op |-> probe.op,
                    confidence |-> CalculateConfidence(probe.intent, probe.context,
                                                       ProbeRule(probe.base))]
    /\ UNCHANGED probe
    /\ UNCHANGED <<protoVars, decVars, ctxVars, cmdVars, layerVars, brainVars>>

\* the weighted combination, for factor values the factor functions need
\* not produce
ApplyCombineFactors ==
    /\ probe.op = "combine"
    /\ probeOut = NoOutput
    /\ probeOut' = [op |-> probe.op,
                    confidence |-> CombineFactors(probe.base,
                                       probe.factors[1], probe.factors[2],
                                       probe.factors[3], probe.factors[4],
                                       probe.factors[5], probe.factors[6])]
    /\ UNCHANGED probe
    /\ UNCHANGED <<protoVars, decVars, ctxVars, cmdVars, layerVars, brainVars>>

\* decision = self._make_local_decision(intent, context, available_actions)
ApplyMakeLocalDecision ==
    /\ probe.op = "make_local_decision"
    /\ probeOut = NoOutput
    /\ LET d == MakeLocalDecision(probe.rs, probe.intent, probe.context, 0)
       IN  probeOut' = [op |-> probe.op, confidence |-> d.confidence, decision |-> d]
    /\ UNCHANGED probe
    /\ UNCHANGED <<protoVars, decVars, ctxVars, cmdVars, layerVars, brainVars>>

\* intent = parser.parse(text)
ApplyParse ==
    /\ probe.op = "parse"
    /\ probeOut = NoOutput
    /\ probeOut' = [op |-> probe.op, intent |-> Parse(probe.text)]
    /\ UNCHANGED probe
    /\ UNCHANGED <<protoVars, decVars, ctxVars, cmdVars, layerVars, brainVars>>

\* command = self._decision_to_command(decision)
ApplyDecisionToCommand ==
    /\ probe.op = "decision_to_command"
    /\ probeOut = NoOutput
    /\ probeOut' = [op |-> probe.op,
                    command |-> DecisionToCommand([action |-> probe.action,
                                                   parameters |-> probe.parameters])]
    /\ UNCHANGED probe
    /\ UNCHANGED <<protoVars, decVars, ctxVars, cmdVars, layerVars, brainVars>>

\* light.get_capabilities(device_data), light an instance of a class that
\* implements the abstract methods of LightProtocol
ApplyGetCapabilities ==
    /\ probe.op = "get_capabilities"
    /\ probeOut = NoOutput
    /\ probeOut' = [op |-> probe.op, result |-> LightGetCapabilities(probe.device_data)]
    /\ UNCHANGED probe
    /\ UNCHANGED <<protoVars, decVars, ctxVars, cmdVars, layerVars, brainVars>>

NextLocal ==
    \/ ApplyCalculateConfidence
    \/ ApplyCombineFactors
    \/ ApplyMakeLocalDecision
    \/ ApplyParse
    \/ ApplyDecisionToCommand
    \/ ApplyGetCapabilities

(***************************************************************************)
(* ContextManager (in-process cache only: redis_client is None).            *)
(***************************************************************************)
\* self.sources, sorted by priority
Sources == <<"user_profile", "device_states", "environment", "weather", "time",
             "history">>

Users == {None, "u1"}

\* ContextManager._get_cache_key: f"context:{source}:{user or 'anonymous'}:{hour}"
GetCacheKey(source, user, t) ==
    <<"context", source, IF user = None THEN "anonymous" ELSE user, t>>

\* the manager is built at 11:00
StartHour == 11

HourOfDay(t) == (StartHour + t) % 24

\* ContextManager._get_time_data
TimeOfDay(h) ==
    CASE h < 6 -> "night"
      [] h >= 6 /\ h < 12 -> "morning"
      [] h >= 12 /\ h < 18 -> "afternoon"
      [] OTHER -> "evening"

\* ContextManager._get_user_profile: the keys of "preferences"
ProfilePreferences == {"theme", "language", "notifications", "auto_optimization"}

\* ContextManager._get_history_data
GetHistoryData(user) ==
    IF user = None THEN <<>> ELSE <<"turn_on", "set_temperature", "activate_scene">>

\* Whether a source's fetch returns a non-empty dict (if data: cache it;
\* if source_data: use it): only _get_user_profile without a user returns {}.
FetchedTruthy(source, user) == source # "user_profile" \/ user # None

\* The cached data of a source: the list object of its recent_actions
\* (history only) and its time_of_day (time only).
Data(source, t, ref) ==
    [ref |-> IF source = "history" THEN ref ELSE 0,
     time_of_day |-> IF source = "time" THEN TimeOfDay(HourOfDay(t)) ELSE None]

\* The source whose fetch raises during one get_context, or None: the
\* first, a middle and the last source of the priority order.
FailingSources == {None, "user_profile", "weather", "history"}

\* a fetch whose failure went unnoticed
FetchYieldsAlways(source, user, failing) == FetchedTruthy(source, user)

\* source_data = await self._get_source_data(...) on a cache miss: the fetch
\* did not raise and returned a non-empty dict
FetchYields(source, user, failing) ==
    source # failing /\ FetchedTruthy(source, user)

\* ContextManager.get_context: every source from the cache or fetched and
\* cached (_get_source_data), merged (_merge_context_data) into a Context;
\* a source whose fetch raises is skipped (except Exception: log)
GetContext(user, failing) ==
    /\ nctx < MaxCtxOps
    /\ nctx' = nctx + 1
    /\ lastCtx' = [op |-> "get_context", user |-> user, failing |-> failing,
                 at |-> clock]
    /\ LET key(src) == GetCacheKey(src, user, clock)
           hit(src) == key(src) \in DOMAIN lcache
           fresh == Len(heap) + 1
           used == {Sources[i] : i \in DOMAIN Sources}
           data(src) == IF hit(src) THEN lcache[key(src)] ELSE Data(src, clock, fresh)
           fetched(src) == ~hit(src) /\ FetchYields(src, user, failing)
           got(src) == hit(src) \/ fetched(src)
           new == {key(src) : src \in {x \in used : fetched(x)}}
           srcOf(k) == k[2]
       IN  /\ heap' = IF hit("history") THEN heap
                      ELSE Append(heap, IF fetched("history")
                                        THEN GetHistoryData(user) ELSE <<>>)
           /\ lcache' = [k \in DOMAIN lcache \cup new |->
                            IF k \in DOMAIN lcache THEN lcache[k]
                            ELSE Data(srcOf(k), clock, fresh)]
           /\ contexts' = Append(contexts,
                [user_id |-> user,
                 location |-> IF got("environment") THEN "home" ELSE None,
                 time_of_day |-> IF got("time") THEN data("time").time_of_day ELSE None,
                 weather |-> got("weather"),
                 device_states |-> got("device_states"),
                 user_preferences |-> IF got("user_profile")
                                      THEN ProfilePreferences ELSE {},
                 recent |-> IF hit("history") THEN data("history").ref ELSE fresh,
                 by |-> "get_context"])
    /\ UNCHANGED clock
    /\ UNCHANGED <<protoVars, decVars, localVars, cmdVars, layerVars, brainVars>>

\* The updates dict of update_context; any key may be missing.
Updates ==
    {[location |-> "garden"],
     [recent_actions |-> <<"act1">>],
     [recent_actions |-> Fill("act2", UpdateLen), user_id |-> "u2"],
     [user_preferences |-> {"eco"}, device_states |-> TRUE]}

\* ContextManager.update_context: a new Context, its recent_actions the new
\* list context.recent_actions + recent_actions_updates
UpdateContext(c, updates) ==
    /\ nctx < MaxCtxOps
    /\ nctx' = nctx + 1
    /\ lastCtx' = [op |-> "update_context", c |-> c, updates |-> updates,
                 at |-> clock]
    /\ LET context == contexts[c]
       IN  /\ heap' = Append(heap, heap[context.recent]
                                   \o Get(updates, "recent_actions", <<>>))
           /\ contexts' = Append(contexts,
                [user_id |-> Get(updates, "user_id", context.user_id),
                 location |-> Get(updates, "location", context.location),
                 time_of_day |-> Get(updates, "time_of_day", context.time_of_day),
                 weather |-> Get(updates, "weather", context.weather),
                 device_states |-> context.device_states
                                   \/ Get(updates, "device_states", FALSE),
                 user_preferences |-> context.user_preferences
                                      \cup Get(updates, "user_preferences", {}),
                 recent |-> Len(heap) + 1,
                 by |-> "update_context"])
    /\ UNCHANGED <<clock, lcache>>
    /\ UNCHANGED <<protoVars, decVars, localVars, cmdVars, layerVars, brainVars>>

\* Garder seulement les 10 dernieres actions
HistoryLimit == 10

\* actions[:n]: a truncation that keeps the oldest actions
FirstN(list, n) == SubSeq(list, 1, Min(n, Len(list)))

\* actions[-n:]
LastN(list, n) == SubSeq(list, Max(1, Len(list) - n + 1), Len(list))

Actions == {"act1", "act2"}

\* ContextManager.add_action_to_history: nothing without a user or without a
\* cached history entry; else the action is appended to the cached list
\* object and the entry is given a new list of its last 10 actions
AddActionToHistory(user, action) ==
    /\ nctx < MaxCtxOps
    /\ nctx' = nctx + 1
    /\ lastCtx' = [op |-> "add_action_to_history", user |-> user, action |-> action,
                 at |-> clock]
    /\ LET key == GetCacheKey("history", user, clock)
       IN  IF user # None /\ key \in DOMAIN lcache
           THEN LET ref == lcache[key].ref
                    actions == Append(heap[ref], action)
                IN  /\ heap' = Append([heap EXCEPT ![ref] = actions],
                                      LastN(actions, HistoryLimit))
                    /\ lcache' = [lcache EXCEPT ![key].ref = Len(heap) + 1]
           ELSE UNCHANGED <<heap, lcache>>
    /\ UNCHANGED <<clock, contexts>>
    /\ UNCHANGED <<protoVars, decVars, localVars, cmdVars, layerVars, brainVars>>

\* an hour passes: _get_cache_key reads a new hour bucket
Tick ==
    /\ clock < MaxTicks
    /\ clock' = clock + 1
    /\ UNCHANGED <<heap, lcache, contexts, nctx, lastCtx>>
    /\ UNCHANGED <<protoVars, decVars, localVars, cmdVars, layerVars, brainVars>>

\* ContextManager.__init__
FreshManager ==
    /\ clock = 0
    /\ heap = <<>>
    /\ lcache = <<>>
    /\ contexts = <<>>
    /\ nctx = 0
    /\ lastCtx = [op |-> "none"]

\* A manager in use: the state get_context("u1") followed by k
\* add_action_to_history("u1", "act1") calls leave behind.
ManagerAfterAdds(k) ==
    LET H == GetHistoryData("u1")
        used == {Sources[i] : i \in DOMAIN Sources}
    IN  /\ clock = 0
        /\ heap = [i \in 1..(k + 1) |->
                      IF i <= k
                      THEN Append(LastN(H \o Fill("act1", i - 1), HistoryLimit), "act1")
                      ELSE LastN(H \o Fill("act1", k), HistoryLimit)]
        /\ lcache = [key \in {GetCacheKey(src, "u1", 0) : src \in used} |->
                        Data(key[2], 0, k + 1)]
        /\ contexts = << [user_id |-> "u1", location |-> "home",
                          time_of_day |-> TimeOfDay(HourOfDay(0)),
                          weather |-> TRUE, device_states |-> TRUE,
                          user_preferences |-> ProfilePreferences,
                          recent |-> 1, by |-> "get_context"] >>
        /\ lastCtx = [op |-> "add_action_to_history", user |-> "u1",
                      action |-> "act1", at |-> 0]

WarmManager == ManagerAfterAdds(WarmAdds) /\ nctx = 0

NextContext ==
    \/ \E u \in Users, f \in FailingSources : GetContext(u, f)
    \/ \E c \in DOMAIN contexts, u \in Updates : UpdateContext(c, u)
    \/ \E u \in Users, a \in Actions : AddActionToHistory(u, a)
    \/ Tick

\* Context.recent_actions: the content of the list object the Context holds
RecentActions(c) == heap[contexts[c].recent]

(***************************************************************************)
(* ContextManager._get_source_data over both cache layers, in seconds.      *)
(***************************************************************************)
MaxReads == 3
MaxWaits == 2

\* _get_cache_key names the hour: strftime("%Y%m%d%H")
HourSeconds == 3600

\* ContextManager._get_source_ttl over self.sources
GetSourceTtl(source) ==
    CASE source = "user_profile" -> 3600
      [] source = "device_states" -> 30
      [] source = "environment" -> 300
      [] source = "weather" -> 1800
      [] source = "time" -> 60
      [] OTHER -> IF source = "history" THEN 900 ELSE 300

\* how long the caller lets pass between two calls
Waits == {GetSourceTtl("device_states"), GetSourceTtl("time"), HourSeconds}

LayerKey(source, user) == GetCacheKey(source, user, secs \div HourSeconds)

\* a Redis key answers GET until its expiry
RedisLive(key) == key \in DOMAIN shared /\ shared[key].exp > secs

\* ContextManager._get_cached_data: the in-process map first, whatever the
\* age of the entry; then Redis when a client is set and the GET does not
\* raise, copying the hit into the in-process map
GetCachedData(key, redisOk) ==
    IF key \in DOMAIN local THEN [from |-> "local", at |-> local[key].at]
    ELSE IF redisOn /\ redisOk /\ RedisLive(key)
         THEN [from |-> "redis", at |-> shared[key].at]
         ELSE [from |-> "fetch", at |-> secs]

\* ContextManager._cache_data: the in-process map always; SETEX with the
\* ttl only when a client is set, an error of SETEX being logged
CacheData(key, data, ttl, redisOk) ==
    /\ local' = [k \in DOMAIN local \cup {key} |-> IF k = key THEN data ELSE local[k]]
    /\ shared' = IF redisOn /\ redisOk
                 THEN [k \in DOMAIN shared \cup {key} |->
                          IF k = key THEN [at |-> data.at, exp |-> secs + ttl]
                          ELSE shared[k]]
                 ELSE shared

\* ContextManager._get_source_data, as get_context calls it for one source
GetSourceData(source, user, redisOk) ==
    /\ nreads < MaxReads
    /\ nreads' = nreads + 1
    /\ LET key == LayerKey(source, user)
           got == GetCachedData(key, redisOk)
           truthy == FetchedTruthy(source, user)
       IN  /\ served' = [op |-> "get_source_data", source |-> source, key |-> key,
                         from |-> got.from, at |-> got.at, truthy |-> truthy]
           /\ CASE got.from = "local" -> UNCHANGED <<local, shared>>
                [] got.from = "redis" ->
                     /\ local' = [k \in DOMAIN local \cup {key} |->
                                     IF k = key THEN [at |-> got.at] ELSE local[k]]
                     /\ UNCHANGED shared
                [] OTHER ->
                     IF truthy
                     THEN CacheData(key, [at |-> secs], GetSourceTtl(source), redisOk)
                     ELSE UNCHANGED <<local, shared>>
    /\ UNCHANGED <<secs, nwaits, redisOn>>
    /\ UNCHANGED <<protoVars, decVars, localVars, ctxVars, cmdVars, brainVars>>

\* ContextManager.clear_cache: the in-process entries of one source, or all
ClearCache(source) ==
    /\ nreads < MaxReads
    /\ nreads' = nreads + 1
    /\ local' = [k \in {x \in DOMAIN local : source # None /\ x[2] # source} |-> local[k]]
    /\ served' = [op |-> "clear_cache", source |-> source]
    /\ UNCHANGED <<secs, nwaits, redisOn, shared>>
    /\ UNCHANGED <<protoVars, decVars, localVars, ctxVars, cmdVars, brainVars>>

\* time passes; Redis drops the keys whose expiry is reached
Wait(d) ==
    /\ nwaits < MaxWaits
    /\ nwaits' = nwaits + 1
    /\ secs' = secs + d
    /\ shared' = [k \in {x \in DOMAIN shared : shared[x].exp > secs + d} |-> shared[k]]
    /\ UNCHANGED <<redisOn, local, served, nreads>>
    /\ UNCHANGED <<protoVars, decVars, localVars, ctxVars, cmdVars, brainVars>>

\* ContextManager.__init__ with or without a Redis client, Redis empty
BuiltLayers(withRedis) ==
    /\ secs = 0
    /\ nwaits = 0
    /\ redisOn = withRedis
    /\ local = <<>>
    /\ shared = <<>>
    /\ served = [op |-> "none"]
    /\ nreads = 0

FreshLayers == BuiltLayers(FALSE)

NextLayers ==
    \/ \E source \in SeqRange(Sources), user \in Users, redisOk \in BOOLEAN :
          GetSourceData(source, user, redisOk)
    \/ \E source \in {None, "device_states"} : ClearCache(source)
    \/ \E d \in Waits : Wait(d)

(***************************************************************************)
(* SinikBrain: process_event and execute_action of processes that share     *)
(* one Redis and one Hue bridge.                                            *)
(***************************************************************************)
MaxEvents == 3
MaxPauses == 2

\* self.redis.set(lock_key, "1", nx=True, ex=10)
LockTtl == 10

\* self.cooldown
Cooldown == 60

\* timedelta.seconds is the seconds within the day, the days left out
DaySeconds == 86400

Brains == {"b1", "b2"}

\* f"{device_ip}:{service}"
EventKeys == {<<"10.0.0.5", "netflix">>, <<"10.0.0.5", "spotify">>}

\* what ask_claude returns: None, or a decision with this action
NoAnswer == "no answer"
Answers == {NoAnswer, "none", "dim_lights"}

\* no entry of self.last_action
Never == 0 - 1

\* how long passes between two steps
Pauses == {LockTtl, Cooldown, DaySeconds}

\* (datetime.now() - self.last_action[key]).seconds
ElapsedSeconds(since, t) == (t - since) % DaySeconds

\* if key in self.last_action: ... if elapsed < self.cooldown: return
CooldownActive(b, key) ==
    /\ last_action[b][key] # Never
    /\ ElapsedSeconds(last_action[b][key], wall) < Cooldown

\* process_event after a successful execute_action:
\* self.last_action[key] = datetime.now()
Succeeded(b, key) ==
    last_action' = [last_action EXCEPT ![b][key] = wall]

\* process_event up to the first await of the device command: the cooldown
\* check, ask_claude, and execute_action up to SET NX EX of the lock
ProcessEvent(b, key, decision, redisOk) ==
    /\ bstep[b] = "idle"
    /\ nevents < MaxEvents
    /\ nevents' = nevents + 1
    /\ bevent' = [brain |-> b, key |-> key, skipped |-> CooldownActive(b, key)]
    /\ CASE CooldownActive(b, key) \/ decision = NoAnswer ->
              UNCHANGED <<lock, bstep, bcur, last_action, bret>>
         [] ~CooldownActive(b, key) /\ decision = "none" ->
              /\ Succeeded(b, key)
              /\ bret' = [brain |-> b, acquired |-> FALSE, result |-> TRUE]
              /\ UNCHANGED <<lock, bstep, bcur>>
         [] OTHER ->
              IF redisOk /\ lock = 0
              THEN /\ lock' = wall + LockTtl
                   /\ bstep' = [bstep EXCEPT ![b] = "put"]
                   /\ bcur' = [bcur EXCEPT ![b] = [key |-> key, action |-> decision]]
                   /\ UNCHANGED <<last_action, bret>>
              ELSE /\ bret' = [brain |-> b, acquired |-> FALSE, result |-> FALSE]
                   /\ UNCHANGED <<lock, bstep, bcur, last_action>>
    /\ UNCHANGED <<wall, npauses, target, puts>>
    /\ UNCHANGED <<protoVars, decVars, localVars, ctxVars, cmdVars, layerVars>>

\* execute_action: await client.put(...) completes, or raises and the
\* except clause returns False
DeviceCommand(b, ok) ==
    /\ bstep[b] = "put"
    /\ IF ok
       THEN /\ puts' = puts + 1
            /\ bstep' = [bstep EXCEPT ![b] = "store"]
            /\ UNCHANGED bret
       ELSE /\ bstep' = [bstep EXCEPT ![b] = "idle"]
            /\ bret' = [brain |-> b, acquired |-> TRUE, result |-> FALSE]
            /\ UNCHANGED puts
    /\ UNCHANGED <<wall, npauses, lock, target, bcur, last_action, bevent, nevents>>
    /\ UNCHANGED <<protoVars, decVars, localVars, ctxVars, cmdVars, layerVars>>

StoreOutcomes == {"ok", "set raises", "delete raises"}

\* execute_action after the device command: SET of the target key, DELETE
\* of the lock key, return True; an error of either call returns False
StoreDecision(b, outcome) ==
    /\ bstep[b] = "store"
    /\ bstep' = [bstep EXCEPT ![b] = "idle"]
    /\ target' = IF outcome = "set raises" THEN target ELSE bcur[b].action
    /\ lock' = IF outcome = "ok" THEN 0 ELSE lock
    /\ bret' = [brain |-> b, acquired |-> TRUE, result |-> outcome = "ok"]
    /\ IF outcome = "ok" THEN Succeeded(b, bcur[b].key) ELSE UNCHANGED last_action
    /\ UNCHANGED <<wall, npauses, bcur, bevent, nevents, puts>>
    /\ UNCHANGED <<protoVars, decVars, localVars, ctxVars, cmdVars, layerVars>>

\* time passes; Redis drops the lock key when its expiry is reached
Pause(d) ==
    /\ npauses < MaxPauses
    /\ npauses' = npauses + 1
    /\ wall' = wall + d
    /\ lock' = IF lock > wall + d THEN lock ELSE 0
    /\ UNCHANGED <<target, bstep, bcur, last_action, bevent, bret, nevents, puts>>
    /\ UNCHANGED <<protoVars, decVars, localVars, ctxVars, cmdVars, layerVars>>

\* SinikBrain.__init__ in every process, Redis empty
FreshBrains ==
    /\ wall = 0
    /\ npauses = 0
    /\ lock = 0
    /\ target = None
    /\ bstep = [b \in Brains |-> "idle"]
    /\ bcur = [b \in Brains |-> [key |-> None, action |-> None]]
    /\ last_action = [b \in Brains |-> [k \in EventKeys |-> Never]]
    /\ bevent = [brain |-> None]
    /\ bret = [brain |-> None]
    /\ nevents = 0
    /\ puts = 0

NextBrains ==
    \/ \E b \in Brains, key \in EventKeys, decision \in Answers, redisOk \in BOOLEAN :
          ProcessEvent(b, key, decision, redisOk)
    \/ \E b \in Brains, ok \in BOOLEAN : DeviceCommand(b, ok)
    \/ \E b \in Brains, outcome \in StoreOutcomes : StoreDecision(b, outcome)
    \/ \E d \in Pauses : Pause(d)

(***************************************************************************)
(* Specifications: one per subsystem, the others freshly constructed.       *)
(***************************************************************************)
NoProbe == [op |-> "none"]

InitProto ==
    /\ kind \in Kinds
    /\ FreshProtocol
    /\ rules = InitializeRules /\ FreshEngine
    /\ probe = NoProbe /\ probeOut = NoOutput
    /\ FreshManager
    /\ FreshCommands
    /\ FreshLayers
    /\ FreshBrains

SpecProto == InitProto /\ [][NextProto]_vars

InitDecision ==
    /\ kind = "mqtt" /\ FreshProtocol
    /\ rules \in RuleSets
    /\ FreshEngine
    /\ probe = NoProbe /\ probeOut = NoOutput
    /\ FreshManager
    /\ FreshCommands
    /\ FreshLayers
    /\ FreshBrains

SpecDecision == InitDecision /\ [][NextDecision]_vars

InitLocal ==
    /\ kind = "mqtt" /\ FreshProtocol
    /\ rules = InitializeRules /\ FreshEngine
    /\ probe \in Probes /\ probeOut = NoOutput
    /\ FreshManager
    /\ FreshCommands
    /\ FreshLayers
    /\ FreshBrains

SpecLocal == InitLocal /\ [][NextLocal]_vars

InitContext ==
    /\ kind = "mqtt" /\ FreshProtocol
    /\ rules = InitializeRules /\ FreshEngine
    /\ probe = NoProbe /\ probeOut = NoOutput
    /\ FreshManager \/ WarmManager
    /\ FreshCommands
    /\ FreshLayers
    /\ FreshBrains

SpecContext == InitContext /\ [][NextContext]_vars

InitCommand ==
    /\ kind \in Kinds
    /\ FreshProtocol
    /\ rules = InitializeRules /\ FreshEngine
    /\ probe = NoProbe /\ probeOut = NoOutput
    /\ FreshManager
    /\ FreshCommands
    /\ FreshLayers
    /\ FreshBrains

SpecCommand == InitCommand /\ [][NextCommand]_vars

InitLayers ==
    /\ kind = "mqtt" /\ FreshProtocol
    /\ rules = InitializeRules /\ FreshEngine
    /\ probe = NoProbe /\ probeOut = NoOutput
    /\ FreshManager
    /\ FreshCommands
    /\ \E withRedis \in BOOLEAN : BuiltLayers(withRedis)
    /\ FreshBrains

SpecLayers == InitLayers /\ [][NextLayers]_vars

InitBrains ==
    /\ kind = "mqtt" /\ FreshProtocol
    /\ rules = InitializeRules /\ FreshEngine
    /\ probe = NoProbe /\ probeOut = NoOutput
    /\ FreshManager
    /\ FreshCommands
    /\ FreshLayers
    /\ FreshBrains

SpecBrains == InitBrains /\ [][NextBrains]_vars

(***************************************************************************)
(* Properties of the DecisionEngine.                                        *)
(***************************************************************************)
HasReturned(k) == calls[k].st = "returned"

\* equal in action, target, parameters, confidence, reasoning, alternatives
SameButTimestamp(d, e) ==
    /\ d.action = e.action
    /\ d.target = e.target
    /\ d.parameters = e.parameters
    /\ d.confidence = e.confidence
    /\ d.reasoning = e.reasoning
    /\ d.alternatives = e.alternatives

SameInput(j, k) ==
    /\ calls[j].intent = calls[k].intent
    /\ calls[j].context = calls[k].context

\* C6: a make_decision call whose delegate call failed (HTTP 500 or any
\* other failure) raises nothing and returns a Decision equal, in all but
\* its timestamp, to what local rule evaluation produces for the same
\* intent and context.
C6_FallbackEqualsLocal ==
    \A k \in DOMAIN calls :
        calls[k].fail # "none" =>
            /\ HasReturned(k)
            /\ SameButTimestamp(calls[k].decision,
                                MakeLocalDecision(rules, calls[k].intent,
                                                  calls[k].context, 0))

\* the delegate failed, once with an HTTP error and once otherwise, and a
\* rule decided one of the calls
C6_Witness ==
    \E j, k \in DOMAIN calls :
        /\ calls[j].fail = "HTTPError" /\ HasReturned(j)
        /\ calls[k].fail = "ValueError" /\ HasReturned(k)
        /\ calls[j].decision.action # "noop"

SameKey(j, k) ==
    GetDecisionCacheKey(calls[j].intent, calls[j].context)
        = GetDecisionCacheKey(calls[k].intent, calls[k].context)

\* call m, with the cache key of call j, was awaiting the delegate when
\* call j returned
AwaitingAtReturn(m, j) ==
    /\ m # j
    /\ SameKey(m, j)
    /\ j \notin calls[m].after
    /\ calls[m].via # "cache"
    /\ calls[m].st = "pending" \/ calls[m].at > calls[j].at

InRange(c) == MinConfidence <= c /\ c <= MaxConfidence

\* C8: the confidence local rule evaluation gives a Decision is within
\* [0.1, 1.0], for every base confidence, intent confidence and factor
\* values in [0, 1], all at 0 and all at 1 included.
C8_LocalConfidenceInRange ==
    probeOut.op \in {"calculate_confidence", "combine", "make_local_decision"} =>
        InRange(probeOut.confidence)

\* base confidence 1 with every factor at 0: the product 0 was raised to 0.1
C8_Witness ==
    /\ probe.op = "combine"
    /\ probe.base = 100
    /\ \A i \in 1..6 : probe.factors[i] = 0
    /\ probeOut # NoOutput
    /\ probeOut.confidence = MinConfidence

\* C9: every Decision make_decision returns has a confidence within
\* [0.1, 1.0], whether built from the delegate's response, from the local
\* rules or served from the cache.
C9_ReturnedConfidenceInRange ==
    \A k \in DOMAIN calls :
        HasReturned(k) => InRange(calls[k].decision.confidence)

(***************************************************************************)
(* Properties of the ContextManager.                                        *)
(***************************************************************************)
\* C10: every Context produced by get_context or update_context has at
\* most 10 recent_actions, whatever calls followed.
C10_RecentActionsCapped ==
    \A c \in DOMAIN contexts : Len(RecentActions(c)) <= HistoryLimit

\* the step is a ContextManager call
ContextCall == nctx' = nctx + 1

\* the history entry add_action_to_history reads for a user
HistoryKey(user) == GetCacheKey("history", user, clock)

\* C11: recent_actions is append-only with no reordering: update_context
\* returns the input Context's recent_actions, in order, followed by the
\* update's actions; add_action_to_history leaves the cached actions that
\* remain in their order and places the new action last.
C11_AppendOnly ==
    [][ContextCall =>
          /\ lastCtx'.op = "update_context" =>
                heap'[contexts'[Len(contexts')].recent]
                    = heap[contexts[lastCtx'.c].recent]
                      \o Get(lastCtx'.updates, "recent_actions", <<>>)
          /\ (/\ lastCtx'.op = "add_action_to_history"
              /\ lastCtx'.user # None
              /\ HistoryKey(lastCtx'.user) \in DOMAIN lcache) =>
                LET old == heap[lcache[HistoryKey(lastCtx'.user)].ref]
                    new == heap'[lcache'[HistoryKey(lastCtx'.user)].ref]
                IN  /\ new # <<>>
                    /\ new[Len(new)] = lastCtx'.action
                    /\ \E d \in 0..Len(old) :
                          SubSeq(new, 1, Len(new) - 1) = SubSeq(old, d + 1, Len(old))
       ]_vars

\* an add_action_to_history dropped the oldest of 10 cached actions, and an
\* update_context appended to a Context that had actions
C11_Witness ==
    /\ HistoryKey("u1") \in DOMAIN lcache
    /\ LET cached == heap[lcache[HistoryKey("u1")].ref]
       IN  /\ Len(cached) = HistoryLimit
           /\ cached[1] # GetHistoryData("u1")[1]
           /\ cached[Len(cached)] = "act2"
    /\ \E c \in DOMAIN contexts :
          /\ contexts[c].by = "update_context"
          /\ Len(RecentActions(c)) > HistoryLimit

\* C12: a Context is never mutated in place: no ContextManager call changes
\* a field of a Context returned earlier, its recent_actions included.
C12_ContextsNeverMutated ==
    [][\A c \in DOMAIN contexts :
          /\ contexts'[c] = contexts[c]
          /\ heap'[contexts[c].recent] = heap[contexts[c].recent]]_vars

\* what a source contributed to a Context whose recent_actions are ra
Contributed(context, ra, source) ==
    CASE source = "user_profile" -> context.user_preferences # {}
      [] source = "device_states" -> context.device_states
      [] source = "environment" -> context.location # None
      [] source = "weather" -> context.weather
      [] source = "time" -> context.time_of_day # None
      [] source = "history" -> ra # <<>>

\* whether a source has data for a user
HasData(source, user) ==
    /\ source = "user_profile" => user # None
    /\ source = "history" => user # None

C14_SendCommandStructured ==
    cmd.op = "send_command" =>
        /\ cmd.raised = "none"
        /\ {"success", "device_id", "command"} \subseteq cmd.keys
        /\ cmd.keys \cap {"result", "error"} # {}

(***************************************************************************)
(* C15: connect(), publish(), subscribe() and unsubscribe() of MQTTProtocol *)
(* never raise and never retry: a transport failure, or a publish,          *)
(* subscribe or unsubscribe issued while not connected, yields false, and a *)
(* failed connect also leaves the state ERROR with one ERROR notification,  *)
(* delivered once to every observer then registered.                        *)
(***************************************************************************)
BoolCalls == {"publish", "subscribe", "unsubscribe"}

\* the ERROR notifications the caller's k-th call raised
ErrorsBy(k) ==
    {n \in DOMAIN raised :
        /\ raised[n].kind = "state" /\ raised[n].state = ERROR
        /\ raised[n].by = 0 /\ raised[n].op = k}

TimesReceived(o, n) == Cardinality({i \in DOMAIN recv[o] : recv[o][i] = n})

C15_FailureYieldsFalse ==
    kind = "mqtt" =>
        /\ cmd.op \in BoolCalls =>
              /\ cmd.raised = "none"
              /\ cmd.attempts <= 1
              /\ (cmd.fails \/ ~cmd.open) => cmd.success = "false"
        /\ nclients <= nops
        /\ Returned("connect") =>
              /\ ret \in {"true", "false"}
              /\ ret = "false" =>
                    /\ state = ERROR
                    /\ Cardinality(ErrorsBy(nops)) = 1
                    /\ \A n \in ErrorsBy(nops) : \A o \in SeqRange(raised[n].to) :
                          TimesReceived(o, n) = 1

C15_Witness ==
    /\ kind = "mqtt"
    /\ Returned("connect") /\ ret = "false"
    /\ \E n \in ErrorsBy(nops) : raised[n].to = <<"o1">>
    /\ cmd.op = "publish" /\ cmd.hasClient /\ ~cmd.open /\ ~cmd.fails
    /\ cmd.success = "false"

(***************************************************************************)
(* C16: when no rule matches the intent and context during local            *)
(* evaluation, make_decision returns a Decision with action noop, empty     *)
(* target and parameters, confidence 0.1, no alternatives and the "no       *)
(* matching rule" reasoning, and raises no exception.                       *)
(***************************************************************************)
NoRuleMatches(k) == EvaluateRules(rules, calls[k].intent, calls[k].context) = <<>>

C16_NoMatchIsNoop ==
    \A k \in DOMAIN calls :
        (calls[k].fail # "none" /\ NoRuleMatches(k)) =>
            /\ calls[k].st = "returned"
            /\ calls[k].decision.action = "noop"
            /\ calls[k].decision.target = ""
            /\ calls[k].decision.parameters = "none"
            /\ calls[k].decision.confidence = MinConfidence
            /\ calls[k].decision.alternatives = <<>>
            /\ calls[k].decision.reasoning = <<"Aucune regle">>

C16_Witness ==
    \E k \in DOMAIN calls :
        /\ calls[k].via = "local" /\ NoRuleMatches(k)
        /\ calls[k].intent.type = "control"
        /\ calls[k].decision.action = "noop"

(***************************************************************************)
(* C17: for every text that contains an on/off control keyword (allume,     *)
(* eteins, active, desactive), whatever other vocabulary words it holds,    *)
(* IntentParser.parse returns an Intent of type CONTROL with a non-empty    *)
(* action entity and confidence at least 0.1.                               *)
(***************************************************************************)
OnOffKeywords == {"allume", "eteins", "active", "desactive"}

HasOnOffKeyword(text) ==
    \E i \in DOMAIN text : \E k \in OnOffKeywords : Contains(text[i], k)

C17_ControlKeywordGivesControl ==
    (probeOut.op = "parse" /\ HasOnOffKeyword(probe.text)) =>
        /\ probeOut.intent.type = "control"
        /\ "action" \in DOMAIN probeOut.intent.entities
        /\ probeOut.intent.entities["action"] # {}
        /\ probeOut.intent.confidence >= MinConfidence

(***************************************************************************)
(* C18: the Decision-to-command translation maps turn_on to {on: true}      *)
(* whatever the Decision's parameters, every other action of the table to   *)
(* its entry, and every action that is not in the table to the empty        *)
(* payload.                                                                 *)
(***************************************************************************)
C18_CommandTable ==
    probeOut.op = "decision_to_command" =>
        LET c == probeOut.command
            par == probe.parameters
        IN  CASE probe.action = "turn_on" -> c = [on |-> TRUE]
              [] probe.action = "turn_off" -> c = [on |-> FALSE]
              [] probe.action = "set_brightness" ->
                    /\ DOMAIN c = {"bri"}
                    /\ c.bri = IF "brightness" \in DOMAIN par
                               THEN par["brightness"] ELSE 100
              [] probe.action = "set_color" ->
                    /\ DOMAIN c = {"hue", "sat"}
                    /\ c.hue = IF "hue" \in DOMAIN par THEN par["hue"] ELSE 0
                    /\ c.sat = IF "saturation" \in DOMAIN par
                               THEN par["saturation"] ELSE 100
              [] probe.action = "query_status" -> c = [query |-> "status"]
              [] OTHER -> DOMAIN c = {}

C18_Witness ==
    /\ probeOut.op = "decision_to_command"
    /\ probe.action = "turn_on"
    /\ DOMAIN probe.parameters = {"brightness", "hue", "saturation"}
    /\ probeOut.command = [on |-> TRUE]

(***************************************************************************)
(* C19: get_capabilities of a light protocol returns a map in which         *)
(* has_brightness is true exactly when the raw state has a bri field and    *)
(* has_color exactly when it has a hue or an xy field (so state={"bri":120} *)
(* gives has_brightness=true, has_color=false), and the call changes no     *)
(* state of the protocol or of its input.                                   *)
(***************************************************************************)
C19_CapabilitiesFromState ==
    probeOut.op = "get_capabilities" =>
        LET raw == Get(probe.device_data, "state", {})
        IN  /\ probeOut.result.raised = "none"
            /\ probeOut.result.capabilities # None
            /\ probeOut.result.capabilities.has_brightness = ("bri" \in raw)
            /\ probeOut.result.capabilities.has_color =
                  ("hue" \in raw \/ "xy" \in raw)

(***************************************************************************)
(* C20: local rule evaluation matches a rule that has an entity             *)
(* requirement only if every required entity category exists in the intent *)
(* and shares a value with the rule's expected set; with the built-in       *)
(* rules, the turn_on rule does not match a CONTROL intent whose only       *)
(* action is eteins, nor the turn_off rule one whose only action is allume. *)
(***************************************************************************)
\* the entity requirements a rule is written with, as <<category, values>>:
\* under the key "entities", or under a dotted key "entities.<category>"
Required(rule) ==
    (IF "entities" \in DOMAIN rule.condition
     THEN {<<c, rule.condition.entities[c]>> : c \in DOMAIN rule.condition.entities}
     ELSE {})
    \cup
    (IF "dotted" \in DOMAIN rule.condition /\ rule.condition.dotted # <<>>
     THEN {rule.condition.dotted}
     ELSE {})

RequirementMet(rule, intent) ==
    \A req \in Required(rule) :
        /\ req[1] \in DOMAIN intent.entities
        /\ intent.entities[req[1]] \cap req[2] # {}

C20_MatchNeedsEntities ==
    probeOut.op = "make_local_decision" =>
        \A i \in DOMAIN probe.rs :
            RuleMatches(probe.rs[i], probe.intent, probe.context) =>
                RequirementMet(probe.rs[i], probe.intent)

(***************************************************************************)
(* C21: among the rules that match, the local Decision uses the rule with   *)
(* the largest priority number and, among those, the largest base           *)
(* confidence: no matching rule has a larger (priority, confidence) pair    *)
(* than the selected one.                                                   *)
(***************************************************************************)
ProbeMatching == EvaluateRules(probe.rs, probe.intent, probe.context)

LargerPair(a, b) ==
    \/ a.priority > b.priority
    \/ a.priority = b.priority /\ a.confidence > b.confidence

UsesRule(decision, rule) ==
    /\ decision.action = rule.action
    /\ decision.target = rule.target
    /\ decision.parameters = rule.parameters

C21_LargestPairSelected ==
    (probeOut.op = "make_local_decision" /\ ProbeMatching # <<>>) =>
        \E i \in DOMAIN ProbeMatching :
            /\ UsesRule(probeOut.decision, ProbeMatching[i])
            /\ \A j \in DOMAIN ProbeMatching :
                  ~LargerPair(ProbeMatching[j], ProbeMatching[i])

\* a rule of priority 2 and confidence 0.4 wins over one of priority 1 and
\* confidence 1.0
C21_Witness ==
    /\ probeOut.op = "make_local_decision"
    /\ \E i, j \in DOMAIN ProbeMatching :
          /\ ProbeMatching[i].priority > ProbeMatching[j].priority
          /\ ProbeMatching[i].confidence < ProbeMatching[j].confidence
          /\ UsesRule(probeOut.decision, ProbeMatching[i])

(***************************************************************************)
(* C24: IntentParser.parse always returns a confidence within [0.1, 1]:     *)
(* when the best normalised type score is below 0.1 the result is CONTROL   *)
(* with confidence exactly 0.1, and otherwise it is the type with the       *)
(* highest score, with its normalised score as confidence.                  *)
(***************************************************************************)
\* the share of the scores a type has, in millionths (0 when nothing scored)
Share(t, text) ==
    IF TotalScore(text) = 0 THEN 0
    ELSE (Score(t, text) * MaxConfidence) \div TotalScore(text)

TopShare(text) ==
    CHOOSE m \in {Share(IntentTypeOrder[i], text) : i \in DOMAIN IntentTypeOrder} :
        \A i \in DOMAIN IntentTypeOrder : Share(IntentTypeOrder[i], text) <= m

C24_ParseConfidence ==
    probeOut.op = "parse" =>
        /\ InRange(probeOut.intent.confidence)
        /\ IF TopShare(probe.text) < MinConfidence
           THEN /\ probeOut.intent.type = "control"
                /\ probeOut.intent.confidence = MinConfidence
           ELSE /\ Share(probeOut.intent.type, probe.text) = TopShare(probe.text)
                /\ probeOut.intent.confidence = TopShare(probe.text)

\* a text no pattern or keyword matches: the low-confidence fallback
C24_Witness ==
    /\ probeOut.op = "parse"
    /\ probe.text = <<"le", "le">>
    /\ TopShare(probe.text) < MinConfidence
    /\ probeOut.intent.type = "control"
    /\ probeOut.intent.confidence = MinConfidence

(***************************************************************************)
(* C25: at most one listen task of an MQTTProtocol instance is alive at any *)
(* time, under any sequence of connect() and disconnect() calls, connect()  *)
(* on a CONNECTED instance included.                                        *)
(***************************************************************************)
AliveTasks == {t \in DOMAIN tasks : Alive(t)}

C25_OneListenTask == kind = "mqtt" => Cardinality(AliveTasks) <= 1

(***************************************************************************)
(* C26: a Decision served from the decision cache was computed for an       *)
(* intent with the same type, full text and entities, and for a context     *)
(* with the same user_id and time_of_day, as those of the call that         *)
(* receives it; intents that differ after their first 20 characters never   *)
(* share a cached Decision.                                                 *)
(***************************************************************************)
\* call j computed (from the delegate or the local rules) the Decision that
\* call k was served
ComputedFor(j, k) ==
    /\ j \in calls[k].after
    /\ calls[j].via \in {"remote", "local"}
    /\ calls[j].decision = calls[k].decision

SameRequest(j, k) ==
    /\ calls[j].intent.type = calls[k].intent.type
    /\ calls[j].intent.text = calls[k].intent.text
    /\ calls[j].intent.entities = calls[k].intent.entities
    /\ calls[j].context.user_id = calls[k].context.user_id
    /\ calls[j].context.time_of_day = calls[k].context.time_of_day

C26_CachedForSameRequest ==
    \A k \in DOMAIN calls :
        calls[k].via = "cache" =>
            \A j \in DOMAIN calls : ComputedFor(j, k) => SameRequest(j, k)

(***************************************************************************)
(* C27: a Decision the local fallback produced while the delegate was       *)
(* failing does not stay in force for the whole lifetime of the engine:     *)
(* some later make_decision call with the same cache key consults the       *)
(* delegate again.                                                          *)
(***************************************************************************)
\* the calls with the cache key of call j that started after j returned
LaterSameKey(j) ==
    {k \in DOMAIN calls : j \in calls[k].after /\ SameKey(j, k)}

\* every call of the run has been made and has returned
LifetimeOver ==
    /\ Len(calls) = MaxCalls
    /\ \A k \in DOMAIN calls : calls[k].st # "pending"

C27_FallbackExpires ==
    LifetimeOver =>
        \A j \in DOMAIN calls :
            (calls[j].via = "local" /\ LaterSameKey(j) # {}) =>
                \E k \in LaterSameKey(j) : calls[k].via # "cache"

(***************************************************************************)
(* C29: an action passed to add_action_to_history for a user is the last    *)
(* element of recent_actions in the next get_context for that user in the   *)
(* same hour bucket, also when no history entry was cached before the call; *)
(* a call without user_id changes nothing.                                  *)
(***************************************************************************)
\* this step is the get_context that follows an add_action_to_history for
\* the same user, in the hour of that call
GetContextAfterAdd ==
    /\ ContextCall
    /\ lastCtx'.op = "get_context"
    /\ lastCtx.op = "add_action_to_history"
    /\ lastCtx.user # None
    /\ lastCtx'.user = lastCtx.user
    /\ lastCtx.at = clock

C29_ActionRecorded ==
    [][/\ GetContextAfterAdd =>
            LET recent == heap'[contexts'[Len(contexts')].recent]
            IN  recent # <<>> /\ recent[Len(recent)] = lastCtx.action
       /\ (/\ ContextCall
           /\ lastCtx'.op = "add_action_to_history"
           /\ lastCtx'.user = None) => UNCHANGED <<heap, lcache, contexts>>]_vars

(***************************************************************************)
(* C22: a value fetched on a cache miss is stored in both the in-process    *)
(* map and the shared external cache with the source's TTL, and it is not   *)
(* served from either layer once that TTL has elapsed.                      *)
(***************************************************************************)
SourceRead == nreads' = nreads + 1 /\ served'.op = "get_source_data"

C22_StoredWithTtlThenExpires ==
    [][SourceRead =>
         LET key == served'.key
             ttl == GetSourceTtl(served'.source)
         IN  /\ (served'.from = "fetch" /\ served'.truthy) =>
                   /\ key \in DOMAIN local'
                   /\ key \in DOMAIN shared'
                   /\ shared'[key].exp = secs + ttl
             /\ served'.from # "fetch" => secs - served'.at < ttl]_vars

(***************************************************************************)
(* C23: at most one execute_action, among the processes sharing Redis, is   *)
(* between acquiring the lights-group lock and finishing its device         *)
(* command; an execution that fails to acquire the lock sends no command    *)
(* and returns False.                                                       *)
(***************************************************************************)
Commanding == {b \in Brains : bstep[b] = "put"}

\* this step is an execute_action that returns without the lock
FailsToAcquire ==
    /\ nevents' = nevents + 1
    /\ bret' # bret
    /\ ~bret'.acquired /\ ~bret'.result

C23_OneCommandAtATime ==
    [][/\ Cardinality(Commanding') <= 1
       /\ FailsToAcquire => UNCHANGED <<puts, bstep, lock, target>>]_vars

(***************************************************************************)
(* C28: whenever execute_action has acquired the lights-group lock, the     *)
(* lock key is deleted by the time it returns, on success and on every      *)
(* failure path (device-call error or cache-write error).                   *)
(***************************************************************************)
ReturnsHolding(b) == bstep[b] \in {"put", "store"} /\ bstep'[b] = "idle"

C28_LockDeletedOnReturn ==
    [][\A b \in Brains : ReturnsHolding(b) => lock' = 0]_vars

(***************************************************************************)
(* C30: after process_event has successfully executed an action for a       *)
(* (device_ip, service) pair, an event for the same pair arriving less than *)
(* 60 s later is skipped without decision or command, and one arriving 60 s *)
(* or more later, however much later, is processed.                         *)
(***************************************************************************)
EventArrives == nevents' = nevents + 1

C30_CooldownWindow ==
    [][EventArrives =>
         LET since == last_action[bevent'.brain][bevent'.key]
         IN  since # Never =>
               IF wall - since < Cooldown
               THEN /\ bevent'.skipped
                    /\ UNCHANGED <<lock, target, bstep, bcur, bret, puts, last_action>>
               ELSE ~bevent'.skipped]_vars

=============================================================================
